---- MODULE Spec2Model ----
(***************************************************************************)
(* CanvasCraft: the canvas store (zustand), the collaboration service      *)
(* (ShareDB client wrapper) and the DrawingCanvas pointer handlers.        *)
(*                                                                         *)
(* Numbers are integers.  Opacity is kept in tenths (1.0 is 10) and the    *)
(* viewport scale in tenths (1.0 is 10), so that the code's 0.8 and 0.1    *)
(* steps are exact.  Array indices are the code's 0-based indices          *)
(* (historyIndex = -1 for the empty log); sequences are 1-based, so the    *)
(* entry at code index i is history[i + 1].                                *)
(***************************************************************************)
EXTENDS Integers, Sequences, FiniteSets, TLC

(***************************************************************************)
(* Bounds of the model.                                                    *)
(***************************************************************************)
MaxHist == 2
MaxCommits == 60
MaxNow == 2
MaxPath == 2
MaxPan == 30
MaxEvents == 6
MaxGesture == 4
MaxSweep == 3
LimbBits == 11

(***************************************************************************)
(* Program constants.                                                      *)
(***************************************************************************)
HistoryLimit == 50
OpacityOne == 10
EraseDecrement == 8
HandlePixels == 8
ScaleOne == 10
DefaultStrokeWidth == 2
SnapPixels == 1
ZoomStep == 12
MantissaBits == 53

\* null / undefined objects, and the null of string-valued fields
Null == [null |-> TRUE]
NoData == Null
NullStr == "null"

VARIABLES
  \* ---- canvas store (part_003) ----
  tool, paths, shapes, selectedIds,
  stagePos, stageScale, snapEnabled,
  history, historyIndex,
  isCollaborating, isCollabLoading, collabError, collabService,
  \* ---- browser localStorage entry "CanvasCraft-canvas-data" ----
  storage,
  \* ---- CollaborationService instance and its ShareDB document ----
  isConnected, onStateChange, doc, connectionOpen, subscribePending, mountPending,
  \* ---- DrawingCanvas component state (part_002) ----
  isDrawing, isPanning, isDragging, isResizing, resizeHandle,
  startPos, lastPanPoint, dragOffset, currentPath, currentShape,
  tempGuides, erasedElements, isMouseDown, dialogConfig, editingText,
  \* ---- KeyboardShortcuts: snapEnabled as the registered keydown listener
  \* ---- captured it (keyboard-shortcuts.tsx:71-232) ----
  listenerSnap,
  \* ---- Date.now() ----
  now,
  \* ---- number of input events the canvas has handled ----
  events

storeVars == <<paths, shapes, selectedIds, history, historyIndex,
               isCollaborating, isCollabLoading, collabError, collabService,
               storage, isConnected, onStateChange, doc>>
viewVars == <<tool, stagePos, stageScale, snapEnabled>>
netVars == <<connectionOpen, subscribePending, mountPending>>
uiVars == <<isDrawing, isPanning, isDragging, isResizing, resizeHandle,
            startPos, lastPanPoint, dragOffset, currentPath, currentShape,
            tempGuides, erasedElements, isMouseDown, dialogConfig,
            editingText, listenerSnap>>
vars == <<storeVars, viewVars, netVars, uiVars, now, events>>

(***************************************************************************)
(* Helpers on sequences.                                                   *)
(***************************************************************************)
Range(s) == {s[i] : i \in 1..Len(s)}

RECURSIVE Filter(_, _)
Filter(s, keep) ==
  IF s = <<>> THEN <<>>
  ELSE IF keep[Head(s)] THEN <<Head(s)>> \o Filter(Tail(s), keep)
       ELSE Filter(Tail(s), keep)

FilterOutIds(s, ids) ==
  Filter(s, [e \in Range(s) |-> e.id \notin Range(ids)])

Ids(s) == {s[i].id : i \in 1..Len(s)}

Includes(arr, x) == x \in Range(arr)

Min(a, b) == IF a < b THEN a ELSE b
Max(a, b) == IF a > b THEN a ELSE b
Abs(a) == IF a < 0 THEN -a ELSE a

(***************************************************************************)
(* The store as a value, so that a handler's calls compose.                *)
(***************************************************************************)
Cur ==
  [paths |-> paths, shapes |-> shapes, selectedIds |-> selectedIds,
   history |-> history, historyIndex |-> historyIndex,
   isCollaborating |-> isCollaborating, isCollabLoading |-> isCollabLoading,
   collabError |-> collabError, collabService |-> collabService,
   storage |-> storage,
   isConnected |-> isConnected, onStateChange |-> onStateChange, doc |-> doc]

SetStore(S) ==
  /\ paths' = S.paths
  /\ shapes' = S.shapes
  /\ selectedIds' = S.selectedIds
  /\ history' = S.history
  /\ historyIndex' = S.historyIndex
  /\ isCollaborating' = S.isCollaborating
  /\ isCollabLoading' = S.isCollabLoading
  /\ collabError' = S.collabError
  /\ collabService' = S.collabService
  /\ storage' = S.storage
  /\ isConnected' = S.isConnected
  /\ onStateChange' = S.onStateChange
  /\ doc' = S.doc

Snapshot(S) == [paths |-> S.paths, shapes |-> S.shapes]

(***************************************************************************)
(* History (part_003:273-320).                                             *)
(***************************************************************************)
saveToHistory_NoTruncate(S) ==
  LET newHistory == Append(S.history, Snapshot(S))
  IN IF Len(newHistory) > HistoryLimit
     THEN [S EXCEPT !.history = Tail(newHistory)]
     ELSE [S EXCEPT !.history = newHistory, !.historyIndex = S.historyIndex + 1]

saveToHistory_NoEvict(S) ==
  LET newHistory == Append(SubSeq(S.history, 1, S.historyIndex + 1), Snapshot(S))
  IN [S EXCEPT !.history = newHistory, !.historyIndex = S.historyIndex + 1]

saveToHistory(S) ==
  LET newHistory == Append(SubSeq(S.history, 1, S.historyIndex + 1), Snapshot(S))
  IN IF Len(newHistory) > HistoryLimit
     THEN [S EXCEPT !.history = Tail(newHistory)]
     ELSE [S EXCEPT !.history = newHistory, !.historyIndex = S.historyIndex + 1]

saveToLocalStorage(S) == [S EXCEPT !.storage = Snapshot(S)]

\* variant: the cursor moves back but the canvas is not restored
undo_CursorOnly(S) ==
  IF S.historyIndex > 0
  THEN saveToLocalStorage([S EXCEPT !.historyIndex = S.historyIndex - 1,
                                    !.selectedIds = <<>>])
  ELSE S

undo_KeepsSelection(S) ==
  IF S.historyIndex > 0
  THEN LET prevState == S.history[S.historyIndex]
       IN saveToLocalStorage(
            [S EXCEPT !.paths = prevState.paths, !.shapes = prevState.shapes,
                      !.historyIndex = S.historyIndex - 1])
  ELSE S

undo_FromZero(S) ==
  IF S.historyIndex >= 0
  THEN LET prevState == IF S.historyIndex > 0 THEN S.history[S.historyIndex]
                        ELSE [paths |-> <<>>, shapes |-> <<>>]
       IN saveToLocalStorage(
            [S EXCEPT !.paths = prevState.paths, !.shapes = prevState.shapes,
                      !.historyIndex = S.historyIndex - 1, !.selectedIds = <<>>])
  ELSE S

undo(S) ==
  IF S.historyIndex > 0
  THEN LET prevState == S.history[S.historyIndex]
       IN saveToLocalStorage(
            [S EXCEPT !.paths = prevState.paths, !.shapes = prevState.shapes,
                      !.historyIndex = S.historyIndex - 1, !.selectedIds = <<>>])
  ELSE S

redo_ClearsAtBoundary(S) ==
  IF S.historyIndex < Len(S.history) - 1
  THEN LET nextState == S.history[S.historyIndex + 2]
       IN saveToLocalStorage(
            [S EXCEPT !.paths = nextState.paths, !.shapes = nextState.shapes,
                      !.historyIndex = S.historyIndex + 1, !.selectedIds = <<>>])
  ELSE [S EXCEPT !.selectedIds = <<>>]

redo(S) ==
  IF S.historyIndex < Len(S.history) - 1
  THEN LET nextState == S.history[S.historyIndex + 2]
       IN saveToLocalStorage(
            [S EXCEPT !.paths = nextState.paths, !.shapes = nextState.shapes,
                      !.historyIndex = S.historyIndex + 1, !.selectedIds = <<>>])
  ELSE S

canUndo(S) == S.historyIndex > 0
canRedo(S) == S.historyIndex < Len(S.history) - 1

(***************************************************************************)
(* Store mutations (part_003:172-246).                                     *)
(***************************************************************************)
Merge(obj, updates) ==
  [f \in (DOMAIN obj) \cup (DOMAIN updates) |->
     IF f \in DOMAIN updates THEN updates[f] ELSE obj[f]]

MapUpdate(s, id, updates) ==
  [i \in 1..Len(s) |-> IF s[i].id = id THEN Merge(s[i], updates) ELSE s[i]]

Committed(S) == saveToLocalStorage(saveToHistory(S))

addPath(S, path) == Committed([S EXCEPT !.paths = Append(@, path)])

addShape(S, shape) == Committed([S EXCEPT !.shapes = Append(@, shape)])

updateShape(S, id, updates) ==
  Committed([S EXCEPT !.shapes = MapUpdate(@, id, updates)])

deleteShape(S, id) == Committed([S EXCEPT !.shapes = FilterOutIds(@, <<id>>)])

deletePath(S, id) == Committed([S EXCEPT !.paths = FilterOutIds(@, <<id>>)])

clearPaths(S) == Committed([S EXCEPT !.paths = <<>>])

clearShapes(S) == Committed([S EXCEPT !.shapes = <<>>])

clearCanvas(S) ==
  Committed([S EXCEPT !.paths = <<>>, !.shapes = <<>>, !.selectedIds = <<>>])

setSelectedIds(S, ids) == [S EXCEPT !.selectedIds = ids]

clearSelection(S) == [S EXCEPT !.selectedIds = <<>>]

deleteSelected_KeepsSelection(S) ==
  Committed([S EXCEPT !.shapes = FilterOutIds(@, S.selectedIds),
                      !.paths = FilterOutIds(@, S.selectedIds)])

deleteSelected(S) ==
  Committed([S EXCEPT !.shapes = FilterOutIds(@, S.selectedIds),
                      !.paths = FilterOutIds(@, S.selectedIds),
                      !.selectedIds = <<>>])

\* JSON.parse(JSON.stringify(state)): the entities are rebuilt field by field.
\* An absent optional field and an undefined one are both written <<>> / 0
\* in this model, so the copy has the same fields as the original.
JsonCopy(state) ==
  [paths |-> [i \in 1..Len(state.paths) |->
                [f \in DOMAIN state.paths[i] |-> state.paths[i][f]]],
   shapes |-> [i \in 1..Len(state.shapes) |->
                [f \in DOMAIN state.shapes[i] |-> state.shapes[i][f]]]]

loadFromLocalStorage(S) ==
  IF S.storage # NoData
  THEN LET parsed == JsonCopy(S.storage)
       IN saveToHistory([S EXCEPT !.paths = parsed.paths,
                                  !.shapes = parsed.shapes,
                                  !.selectedIds = <<>>])
  ELSE S

setPaths(S, p) == [S EXCEPT !.paths = p]
setShapes(S, s) == [S EXCEPT !.shapes = s]

(***************************************************************************)
(* CollaborationService (collaboration-service.ts).                        *)
(***************************************************************************)
EmptyState == [paths |-> <<>>, shapes |-> <<>>]

getCurrentState(S) == IF S.doc = Null THEN EmptyState ELSE S.doc

\* part_003:507-511
stateChangeCallback(S, state) ==
  [setShapes(setPaths(S, state.paths), state.shapes)
     EXCEPT !.isCollaborating = TRUE, !.isCollabLoading = FALSE,
            !.collabError = NullStr]

notifyStateChange(S) ==
  IF S.onStateChange
  THEN stateChangeCallback(stateChangeCallback(S, getCurrentState(S)),
                           JsonCopy(getCurrentState(S)))
  ELSE S

\* doc.submitOp applies the operation to doc.data and emits "op", whose
\* listener (setupEventListeners) notifies.
submitOp(S, newData) == notifyStateChange([S EXCEPT !.doc = newData])

svcReady(S) == S.isConnected /\ S.doc # Null

svc_addPath(S, path) ==
  IF ~svcReady(S) THEN S
  ELSE notifyStateChange(submitOp(S, [S.doc EXCEPT !.paths = Append(@, path)]))

svc_addShape(S, shape) ==
  IF ~svcReady(S) THEN S
  ELSE notifyStateChange(submitOp(S, [S.doc EXCEPT !.shapes = Append(@, shape)]))

svc_updateShape(S, id, updates) ==
  IF ~svcReady(S) THEN S
  ELSE IF id \notin Ids(S.doc.shapes) THEN S
  ELSE IF DOMAIN updates = {} THEN S
  ELSE notifyStateChange(
         submitOp(S, [S.doc EXCEPT !.shapes = MapUpdate(@, id, updates)]))

svc_updatePath(S, id, updates) ==
  IF ~svcReady(S) THEN S
  ELSE IF id \notin Ids(S.doc.paths) THEN S
  ELSE IF DOMAIN updates = {} THEN S
  ELSE notifyStateChange(
         submitOp(S, [S.doc EXCEPT !.paths = MapUpdate(@, id, updates)]))

svc_deleteSelected(S, ids) ==
  IF ~svcReady(S) THEN S
  ELSE LET newPaths == FilterOutIds(S.doc.paths, ids)
           newShapes == FilterOutIds(S.doc.shapes, ids)
       IN IF Len(newPaths) # Len(S.doc.paths) \/ Len(newShapes) # Len(S.doc.shapes)
          THEN notifyStateChange(
                 submitOp(S, [paths |-> newPaths, shapes |-> newShapes]))
          ELSE S

svc_clearCanvas(S) ==
  IF ~svcReady(S) THEN S
  ELSE notifyStateChange(submitOp(S, EmptyState))

svc_disconnect(S) == [S EXCEPT !.isConnected = FALSE, !.onStateChange = FALSE]

(***************************************************************************)
(* The engine's intents (part_003:552-598).                                *)
(***************************************************************************)
collabActive(S) == S.collabService /\ S.isCollaborating

collaborativeAddPath(S, path) ==
  IF collabActive(S) THEN svc_addPath(S, path) ELSE addPath(S, path)

collaborativeAddShape(S, shape) ==
  IF collabActive(S) THEN svc_addShape(S, shape) ELSE addShape(S, shape)

collaborativeUpdateShape(S, id, updates) ==
  IF collabActive(S)
  THEN updateShape(svc_updateShape(S, id, updates), id, updates)
  ELSE updateShape(S, id, updates)

collaborativeDeleteSelected(S) ==
  IF collabActive(S)
  THEN deleteSelected(svc_deleteSelected(S, S.selectedIds))
  ELSE deleteSelected(S)

collaborativeClearCanvas(S) ==
  IF collabActive(S) THEN svc_clearCanvas(S) ELSE clearCanvas(S)

(***************************************************************************)
(* Entities (types/canvas.ts).  width/height 0 and points <<>> stand for   *)
(* the absent optional fields (the code reads them as `width || 0`).       *)
(***************************************************************************)
Shape(id, type, x, y, w, h, pts) ==
  [id |-> id, type |-> type, x |-> x, y |-> y, width |-> w, height |-> h,
   opacity |-> OpacityOne, points |-> pts]

Path(id, pts) ==
  [id |-> id, points |-> pts, strokeWidth |-> DefaultStrokeWidth,
   opacity |-> OpacityOne]

Pt(x, y) == [x |-> x, y |-> y]

(***************************************************************************)
(* Geometry and hit-testing (part_002:171-295, utils.ts:9-40).             *)
(***************************************************************************)
\* (client - rect - stagePos) / stageScale; the canvas fills the window.
getCanvasCoordinates(cx, cy) ==
  Pt(((cx - stagePos.x) * ScaleOne) \div stageScale,
     ((cy - stagePos.y) * ScaleOne) \div stageScale)

ShapeContains(shape, x, y) ==
  /\ x >= shape.x
  /\ x <= shape.x + shape.width
  /\ y >= shape.y
  /\ y <= shape.y + shape.height

\* topmost first; Null when no shape contains the point
findShapeAtPosition(x, y) ==
  LET hits == {i \in 1..Len(shapes) : ShapeContains(shapes[i], x, y)}
  IN IF hits = {} THEN Null
     ELSE shapes[CHOOSE i \in hits : \A j \in hits : j <= i]

\* pointToLineDistance(p, a, b) <= r, for r = num / den >= 0, compared on
\* the squares: with t the clamped projection parameter, the squared
\* distance is |p-a|^2 (t = 0), |p-b|^2 (t = 1) or |p-a|^2 - dot^2 / len^2.
\* For whole X and d > 0, X * d <= Y iff X <= Y \div d.
WithinSegmentDistance(px, py, x1, y1, x2, y2, num, den) ==
  LET lineLengthSq == (x2 - x1) * (x2 - x1) + (y2 - y1) * (y2 - y1)
      dot == (px - x1) * (x2 - x1) + (py - y1) * (y2 - y1)
      dA == (px - x1) * (px - x1) + (py - y1) * (py - y1)
      dB == (px - x2) * (px - x2) + (py - y2) * (py - y2)
  IN IF lineLengthSq = 0 THEN dA <= (num * num) \div (den * den)
     ELSE IF dot <= 0 THEN dA <= (num * num) \div (den * den)
     ELSE IF dot >= lineLengthSq THEN dB <= (num * num) \div (den * den)
     ELSE dA * lineLengthSq - dot * dot
            <= (num * num * lineLengthSq) \div (den * den)

PathHit(path, x, y) ==
  \E j \in 0..(Len(path.points) - 4) :
     /\ j % 2 = 0
     /\ WithinSegmentDistance(x, y, path.points[j + 1], path.points[j + 2],
                              path.points[j + 3], path.points[j + 4],
                              path.strokeWidth * ScaleOne, 2 * stageScale)

findPathAtPosition(x, y) ==
  LET hits == {i \in 1..Len(paths) : PathHit(paths[i], x, y)}
  IN IF hits = {} THEN Null
     ELSE paths[CHOOSE i \in hits : \A j \in hits : j <= i]

\* The eight handles in the code's order, each by twice its anchor point.
HandleNames == <<"nw", "ne", "sw", "se", "n", "s", "w", "e">>

HandleAnchor2(shape, name) ==
  LET x0 == 2 * shape.x
      y0 == 2 * shape.y
      w == shape.width
      h == shape.height
  IN CASE name = "nw" -> Pt(x0, y0)
       [] name = "ne" -> Pt(x0 + 2 * w, y0)
       [] name = "sw" -> Pt(x0, y0 + 2 * h)
       [] name = "se" -> Pt(x0 + 2 * w, y0 + 2 * h)
       [] name = "n" -> Pt(x0 + w, y0)
       [] name = "s" -> Pt(x0 + w, y0 + 2 * h)
       [] name = "w" -> Pt(x0, y0 + h)
       [] name = "e" -> Pt(x0 + 2 * w, y0 + h)

\* handle square: anchor - handleSize/2 .. anchor + handleSize/2, with
\* handleSize = 8 / stageScale; compared after scaling by 2 * stageScale.
InHandle(shape, name, x, y) ==
  LET a == HandleAnchor2(shape, name)
      half2 == HandlePixels * ScaleOne
  IN /\ 2 * x * stageScale >= a.x * stageScale - half2
     /\ 2 * x * stageScale <= a.x * stageScale + half2
     /\ 2 * y * stageScale >= a.y * stageScale - half2
     /\ 2 * y * stageScale <= a.y * stageScale + half2

getResizeHandle(x, y, shape) ==
  LET hit == {k \in 1..Len(HandleNames) : InHandle(shape, HandleNames[k], x, y)}
  IN IF hit = {} THEN NullStr
     ELSE HandleNames[CHOOSE k \in hit : \A j \in hit : k <= j]

(***************************************************************************)
(* Snapping (part_002:298-386).                                            *)
(***************************************************************************)
\* twice the nine snap points of a shape, in the code's order
ShapeSnapPoints2(s) ==
  LET x == 2 * s.x
      y == 2 * s.y
      w == s.width
      h == s.height
  IN << Pt(x, y), Pt(x + 2 * w, y), Pt(x, y + 2 * h), Pt(x + 2 * w, y + 2 * h),
        Pt(x + w, y + h),
        Pt(x + w, y), Pt(x + w, y + 2 * h), Pt(x, y + h), Pt(x + 2 * w, y + h) >>

RECURSIVE SnapPointsOf(_, _)
SnapPointsOf(ss, excluded) ==
  IF ss = <<>> THEN <<>>
  ELSE (IF excluded # Null /\ Head(ss).id = excluded.id THEN <<>>
        ELSE ShapeSnapPoints2(Head(ss))) \o SnapPointsOf(Tail(ss), excluded)

getAllSnapPoints(currentShapeArg) == SnapPointsOf(shapes, currentShapeArg)

\* variant: the tolerance is not divided by the zoom scale
RECURSIVE ClosestOnAxis_IgnoresScale(_, _, _)
ClosestOnAxis_IgnoresScale(cands2, v2, closest) ==
  IF cands2 = <<>> THEN closest
  ELSE LET distance2 == Abs(v2 - Head(cands2))
           nearer == closest = <<>> \/ distance2 < Abs(v2 - closest[1])
           within == distance2 <= 2 * SnapPixels
       IN ClosestOnAxis_IgnoresScale(Tail(cands2), v2,
                        IF nearer /\ within THEN <<Head(cands2)>> ELSE closest)

\* the reduce of applySnapping over one axis: `closest` is <<>> for Infinity
\* and <<c2>> for a coordinate (doubled); v2 is the doubled candidate.
RECURSIVE ClosestOnAxis(_, _, _)
ClosestOnAxis(cands2, v2, closest) ==
  IF cands2 = <<>> THEN closest
  ELSE LET distance2 == Abs(v2 - Head(cands2))
           nearer == closest = <<>> \/ distance2 < Abs(v2 - closest[1])
           within == distance2 * stageScale <= 2 * SnapPixels * ScaleOne
       IN ClosestOnAxis(Tail(cands2), v2,
                        IF nearer /\ within THEN <<Head(cands2)>> ELSE closest)

\* Returns [x, y, guides]; coordinates are halved back, which is exact
\* whenever the snap point has integer coordinates.
applySnapping(x, y, shapeArg) ==
  IF ~snapEnabled THEN [x |-> x, y |-> y, guides |-> tempGuides]
  ELSE
    LET snapPoints == getAllSnapPoints(shapeArg)
        xs == [i \in 1..Len(snapPoints) |-> snapPoints[i].x]
        ys == [i \in 1..Len(snapPoints) |-> snapPoints[i].y]
        closestX == ClosestOnAxis(xs, 2 * x, <<>>)
        closestY == ClosestOnAxis(ys, 2 * y, <<>>)
        snappedX == IF closestX # <<>> THEN closestX[1] \div 2 ELSE x
        snappedY == IF closestY # <<>> THEN closestY[1] \div 2 ELSE y
        gx == IF closestX # <<>>
              THEN <<[type |-> "vertical", position |-> snappedX]>> ELSE <<>>
        gy == IF closestY # <<>>
              THEN <<[type |-> "horizontal", position |-> snappedY]>> ELSE <<>>
    IN [x |-> snappedX, y |-> snappedY, guides |-> gx \o gy]

(***************************************************************************)
(* The component state as a value.                                         *)
(***************************************************************************)
CurUI ==
  [isDrawing |-> isDrawing, isPanning |-> isPanning, isDragging |-> isDragging,
   isResizing |-> isResizing, resizeHandle |-> resizeHandle,
   startPos |-> startPos, lastPanPoint |-> lastPanPoint,
   dragOffset |-> dragOffset, currentPath |-> currentPath,
   currentShape |-> currentShape, tempGuides |-> tempGuides,
   erasedElements |-> erasedElements, isMouseDown |-> isMouseDown,
   dialogConfig |-> dialogConfig, editingText |-> editingText,
   listenerSnap |-> listenerSnap, stagePos |-> stagePos]

SetUI(U) ==
  /\ isDrawing' = U.isDrawing
  /\ isPanning' = U.isPanning
  /\ isDragging' = U.isDragging
  /\ isResizing' = U.isResizing
  /\ resizeHandle' = U.resizeHandle
  /\ startPos' = U.startPos
  /\ lastPanPoint' = U.lastPanPoint
  /\ dragOffset' = U.dragOffset
  /\ currentPath' = U.currentPath
  /\ currentShape' = U.currentShape
  /\ tempGuides' = U.tempGuides
  /\ erasedElements' = U.erasedElements
  /\ isMouseDown' = U.isMouseDown
  /\ dialogConfig' = U.dialogConfig
  /\ editingText' = U.editingText
  /\ listenerSnap' = U.listenerSnap
  /\ stagePos' = U.stagePos

FindById(arr, id) ==
  IF id \in Ids(arr)
  THEN arr[CHOOSE i \in 1..Len(arr) :
             arr[i].id = id /\ \A j \in 1..(i - 1) : arr[j].id # id]
  ELSE Null

ShapeTools == {"rectangle", "circle", "arrow", "line"}

(***************************************************************************)
(* Missing from the store under src/: the component calls eraseSelected    *)
(* and collaborativeUpdatePath (part_002:138,143,415,426).  Modelled from  *)
(* the specification: a batch delete of the touched ids with one history   *)
(* commit, and the path counterpart of collaborativeUpdateShape.           *)
(***************************************************************************)
updatePath(S, id, updates) ==
  Committed([S EXCEPT !.paths = MapUpdate(@, id, updates)])

collaborativeUpdatePath(S, id, updates) ==
  IF collabActive(S)
  THEN updatePath(svc_updatePath(S, id, updates), id, updates)
  ELSE updatePath(S, id, updates)

eraseLocal(S, ids) ==
  Committed([S EXCEPT !.shapes = FilterOutIds(@, ids),
                      !.paths = FilterOutIds(@, ids),
                      !.selectedIds =
                         Filter(@, [e \in Range(@) |-> e \notin Range(ids)])])

eraseSelected(S, ids) ==
  IF collabActive(S) THEN eraseLocal(svc_deleteSelected(S, ids), ids)
  ELSE eraseLocal(S, ids)

(***************************************************************************)
(* handleMouseDown (part_002:1019-1104).  Each handler maps the component  *)
(* state U and the store S of the last render to [ui, st].                 *)
(***************************************************************************)
ResizeHit(pos) ==
  {k \in 1..Len(selectedIds) :
     LET shape == FindById(shapes, selectedIds[k])
     IN shape # Null /\ getResizeHandle(pos.x, pos.y, shape) # NullStr}

\* variant: the click replaces the selection even when the shape hit is
\* already selected
mouseDownSelect_AlwaysReplaces(U, S, pos, shiftKey) ==
  LET clickedShape == findShapeAtPosition(pos.x, pos.y)
  IN IF ResizeHit(pos) # {} \/ clickedShape = Null
     THEN [ui |-> U, st |-> S]
     ELSE [ui |-> [U EXCEPT !.isDragging = TRUE, !.startPos = pos,
                            !.dragOffset = Pt(pos.x - clickedShape.x,
                                              pos.y - clickedShape.y)],
           st |-> IF shiftKey /\ ~Includes(selectedIds, clickedShape.id)
                  THEN setSelectedIds(S, Append(selectedIds, clickedShape.id))
                  ELSE IF shiftKey THEN S
                  ELSE setSelectedIds(S, <<clickedShape.id>>)]

mouseDownSelect(U, S, pos, shiftKey) ==
  IF ResizeHit(pos) # {}
  THEN LET k == CHOOSE k \in ResizeHit(pos) : \A j \in ResizeHit(pos) : k <= j
           shape == FindById(shapes, selectedIds[k])
       IN [ui |-> [U EXCEPT !.isResizing = TRUE,
                            !.resizeHandle = getResizeHandle(pos.x, pos.y, shape),
                            !.startPos = pos],
           st |-> S]
  ELSE LET clickedShape == findShapeAtPosition(pos.x, pos.y)
       IN IF clickedShape # Null
          THEN [ui |-> [U EXCEPT !.isDragging = TRUE, !.startPos = pos,
                                 !.dragOffset = Pt(pos.x - clickedShape.x,
                                                   pos.y - clickedShape.y)],
                st |-> IF ~Includes(selectedIds, clickedShape.id)
                       THEN IF shiftKey
                            THEN setSelectedIds(S, Append(selectedIds, clickedShape.id))
                            ELSE setSelectedIds(S, <<clickedShape.id>>)
                       ELSE S]
          ELSE [ui |-> U, st |-> IF ~shiftKey THEN clearSelection(S) ELSE S]

mouseDownShapeTool(U, S, pos) ==
  LET snappedPos == applySnapping(pos.x, pos.y, Null)
      isLine == tool \in {"arrow", "line"}
  IN [ui |-> [U EXCEPT
                !.isDrawing = TRUE,
                !.startPos = pos,
                !.tempGuides = snappedPos.guides,
                !.currentShape =
                   Shape(now, tool, snappedPos.x, snappedPos.y, 0, 0,
                         IF isLine
                         THEN <<snappedPos.x, snappedPos.y, snappedPos.x, snappedPos.y>>
                         ELSE <<>>)],
      st |-> S]

(***************************************************************************)
(* Text entry (part_002:442-546, 1469-1494).  A text is a sequence of      *)
(* one-character strings; screen coordinates are those of the canvas       *)
(* element, whose bounding rectangle starts at (0, 0).                     *)
(***************************************************************************)
FontSize == 16
CharWidth == 8

toScreen(v, offset) == (v * stageScale) \div ScaleOne + offset

startTextCreation(U, pos) ==
  [U EXCEPT !.editingText =
     [id |-> now, x |-> toScreen(pos.x, stagePos.x),
      y |-> toScreen(pos.y, stagePos.y), text |-> <<>>, fontSize |-> FontSize]]

startTextEditing(U, shape) ==
  [U EXCEPT !.editingText =
     [id |-> shape.id, x |-> toScreen(shape.x, stagePos.x),
      y |-> toScreen(shape.y, stagePos.y),
      text |-> IF "text" \in DOMAIN shape THEN shape.text ELSE <<>>,
      fontSize |-> FontSize]]

handleDoubleClick(U, cx, cy) ==
  LET pos == getCanvasCoordinates(cx, cy)
      clickedShape == findShapeAtPosition(pos.x, pos.y)
  IN IF clickedShape # Null /\ clickedShape.type = "text"
     THEN startTextEditing(U, clickedShape)
     ELSE startTextCreation(U, pos)

\* String.prototype.trim() leaves the empty string
Blank(text) == \A i \in 1..Len(text) : text[i] = " "

TextShape(id, x, y, text, fontSize) ==
  [id |-> id, type |-> "text", x |-> x, y |-> y,
   width |-> Len(text) * CharWidth, height |-> fontSize,
   opacity |-> OpacityOne, points |-> <<>>, text |-> text]

completeTextEditing(U, S) ==
  IF U.editingText = Null THEN [ui |-> U, st |-> S]
  ELSE IF Blank(U.editingText.text)
  THEN [ui |-> [U EXCEPT !.editingText = Null], st |-> S]
  ELSE LET e == U.editingText
           c == getCanvasCoordinates(e.x, e.y)
           snapped == applySnapping(c.x, c.y, Null)
           T == IF e.id \in Ids(S.shapes)
                THEN collaborativeUpdateShape(S, e.id, [text |-> e.text])
                ELSE collaborativeAddShape(
                       S, TextShape(e.id, snapped.x, snapped.y, e.text,
                                    e.fontSize))
       IN [ui |-> [U EXCEPT !.editingText = Null,
                            !.tempGuides = snapped.guides],
           st |-> T]

mouseDown(U, S, cx, cy, shiftKey) ==
  LET pos == getCanvasCoordinates(cx, cy)
      U1 == [U EXCEPT !.isMouseDown = TRUE]
  IN CASE tool = "hand" ->
            [ui |-> [U1 EXCEPT !.isPanning = TRUE, !.lastPanPoint = Pt(cx, cy)],
             st |-> S]
       [] tool = "eraser" ->
            [ui |-> [U1 EXCEPT !.erasedElements = <<>>], st |-> S]
       [] tool = "select" -> mouseDownSelect(U1, S, pos, shiftKey)
       [] tool = "pen" ->
            [ui |-> [U1 EXCEPT !.isDrawing = TRUE, !.currentPath = <<pos>>],
             st |-> S]
       [] tool = "text" -> [ui |-> startTextCreation(U1, pos), st |-> S]
       [] tool \in ShapeTools -> mouseDownShapeTool(U1, S, pos)
       [] OTHER -> [ui |-> U1, st |-> S]

(***************************************************************************)
(* handleMouseMove (part_002:1106-1236) and the eraser sweep (393-421).    *)
(***************************************************************************)
\* shape.opacity || 1, then Math.max(0, opacity - 0.8)
ErasedOpacity(entity) ==
  Max(0, (IF entity.opacity = 0 THEN OpacityOne ELSE entity.opacity) - EraseDecrement)

\* variant: the sweep does not consult the touched set
eraserMouseMove_Retouches(U, S, pos) ==
  LET hoveredShape == findShapeAtPosition(pos.x, pos.y)
      hoveredPath == findPathAtPosition(pos.x, pos.y)
      S1 == IF hoveredShape # Null
            THEN collaborativeUpdateShape(S, hoveredShape.id,
                                          [opacity |-> ErasedOpacity(hoveredShape)])
            ELSE S
      E1 == IF hoveredShape # Null THEN Append(U.erasedElements, hoveredShape.id)
            ELSE U.erasedElements
      S2 == IF hoveredPath # Null
            THEN collaborativeUpdatePath(S1, hoveredPath.id,
                                         [opacity |-> ErasedOpacity(hoveredPath)])
            ELSE S1
      E2 == IF hoveredPath # Null THEN Append(E1, hoveredPath.id) ELSE E1
  IN [ui |-> [U EXCEPT !.erasedElements = E2], st |-> S2]

eraserMouseMove(U, S, pos) ==
  LET hoveredShape == findShapeAtPosition(pos.x, pos.y)
      hoveredPath == findPathAtPosition(pos.x, pos.y)
      touchShape == hoveredShape # Null /\ ~Includes(erasedElements, hoveredShape.id)
      touchPath == hoveredPath # Null /\ ~Includes(erasedElements, hoveredPath.id)
      S1 == IF touchShape
            THEN collaborativeUpdateShape(S, hoveredShape.id,
                                          [opacity |-> ErasedOpacity(hoveredShape)])
            ELSE S
      E1 == IF touchShape THEN Append(U.erasedElements, hoveredShape.id)
            ELSE U.erasedElements
      S2 == IF touchPath
            THEN collaborativeUpdatePath(S1, hoveredPath.id,
                                         [opacity |-> ErasedOpacity(hoveredPath)])
            ELSE S1
      E2 == IF touchPath THEN Append(E1, hoveredPath.id) ELSE E1
  IN [ui |-> [U EXCEPT !.erasedElements = E2], st |-> S2]

\* variant: the south-east handle changes the width alone
ResizedShape_WidthOnly(shape, handle, deltaX, deltaY) ==
  CASE handle = "se" -> [shape EXCEPT !.width = @ + deltaX]
    [] handle = "sw" -> [shape EXCEPT !.x = @ + deltaX, !.width = @ - deltaX,
                                      !.height = @ + deltaY]
    [] handle = "ne" -> [shape EXCEPT !.y = @ + deltaY, !.width = @ + deltaX,
                                      !.height = @ - deltaY]
    [] handle = "nw" -> [shape EXCEPT !.x = @ + deltaX, !.y = @ + deltaY,
                                      !.width = @ - deltaX, !.height = @ - deltaY]
    [] handle = "n" -> [shape EXCEPT !.y = @ + deltaY, !.height = @ - deltaY]
    [] handle = "s" -> [shape EXCEPT !.height = @ + deltaY]
    [] handle = "w" -> [shape EXCEPT !.x = @ + deltaX, !.width = @ - deltaX]
    [] handle = "e" -> [shape EXCEPT !.width = @ + deltaX]
    [] OTHER -> shape

ResizedShape(shape, handle, deltaX, deltaY) ==
  CASE handle = "se" -> [shape EXCEPT !.width = @ + deltaX, !.height = @ + deltaY]
    [] handle = "sw" -> [shape EXCEPT !.x = @ + deltaX, !.width = @ - deltaX,
                                      !.height = @ + deltaY]
    [] handle = "ne" -> [shape EXCEPT !.y = @ + deltaY, !.width = @ + deltaX,
                                      !.height = @ - deltaY]
    [] handle = "nw" -> [shape EXCEPT !.x = @ + deltaX, !.y = @ + deltaY,
                                      !.width = @ - deltaX, !.height = @ - deltaY]
    [] handle = "n" -> [shape EXCEPT !.y = @ + deltaY, !.height = @ - deltaY]
    [] handle = "s" -> [shape EXCEPT !.height = @ + deltaY]
    [] handle = "w" -> [shape EXCEPT !.x = @ + deltaX, !.width = @ - deltaX]
    [] handle = "e" -> [shape EXCEPT !.width = @ + deltaX]
    [] OTHER -> shape

resizeMove(U, S, pos) ==
  LET shape == FindById(shapes, selectedIds[1])
  IN IF shape # Null
     THEN [ui |-> [U EXCEPT !.startPos = pos],
           st |-> collaborativeUpdateShape(
                    S, selectedIds[1],
                    ResizedShape(shape, resizeHandle,
                                 pos.x - startPos.x, pos.y - startPos.y))]
     ELSE [ui |-> U, st |-> S]

\* selectedIds.forEach: every selected id that is a shape of the last render
RECURSIVE MoveAll(_, _, _)
MoveAll(S, ids, target) ==
  IF ids = <<>> THEN S
  ELSE MoveAll(IF Head(ids) \in Ids(shapes)
               THEN collaborativeUpdateShape(S, Head(ids),
                                             [x |-> target.x, y |-> target.y])
               ELSE S,
               Tail(ids), target)

\* variant: the drag offset recorded at pointer-down is ignored
dragMove_NoOffset(U, S, pos) ==
  LET snappedPos == applySnapping(pos.x, pos.y, Null)
  IN [ui |-> [U EXCEPT !.tempGuides = snappedPos.guides,
                       !.startPos = Pt(snappedPos.x, snappedPos.y)],
      st |-> MoveAll(S, selectedIds, snappedPos)]

dragMove(U, S, pos) ==
  LET snappedPos == applySnapping(pos.x - dragOffset.x, pos.y - dragOffset.y, Null)
  IN [ui |-> [U EXCEPT !.tempGuides = snappedPos.guides,
                       !.startPos = Pt(snappedPos.x + dragOffset.x,
                                       snappedPos.y + dragOffset.y)],
      st |-> MoveAll(S, selectedIds, snappedPos)]

drawMove(U, S, pos) ==
  IF tool = "pen"
  THEN [ui |-> [U EXCEPT !.currentPath = Append(@, pos)], st |-> S]
  ELSE IF currentShape # Null /\ startPos # Null
  THEN LET snappedPos == applySnapping(pos.x, pos.y, currentShape)
           updatedShape ==
             IF tool \in {"rectangle", "circle"}
             THEN [currentShape EXCEPT !.width = snappedPos.x - startPos.x,
                                       !.height = snappedPos.y - startPos.y]
             ELSE IF tool \in {"arrow", "line"}
             THEN [currentShape EXCEPT
                     !.points = <<startPos.x, startPos.y, snappedPos.x, snappedPos.y>>]
             ELSE currentShape
       IN [ui |-> [U EXCEPT !.tempGuides = snappedPos.guides,
                            !.currentShape = updatedShape],
           st |-> S]
  ELSE [ui |-> U, st |-> S]

mouseMove(U, S, cx, cy) ==
  LET pos == getCanvasCoordinates(cx, cy)
      U1 == IF ~isDragging /\ ~isResizing /\ ~isDrawing
            THEN [U EXCEPT !.tempGuides = <<>>] ELSE U
  IN IF tool = "eraser" /\ isMouseDown THEN eraserMouseMove(U1, S, pos)
     ELSE IF isPanning /\ lastPanPoint # Null
     THEN [ui |-> [U1 EXCEPT !.stagePos = Pt(stagePos.x + cx - lastPanPoint.x,
                                             stagePos.y + cy - lastPanPoint.y),
                             !.lastPanPoint = Pt(cx, cy)],
           st |-> S]
     ELSE IF isResizing /\ resizeHandle # NullStr /\ Len(selectedIds) = 1
             /\ startPos # Null
     THEN resizeMove(U1, S, pos)
     ELSE IF isDragging /\ Len(selectedIds) > 0 /\ startPos # Null
     THEN dragMove(U1, S, pos)
     ELSE IF ~isDrawing THEN [ui |-> U1, st |-> S]
     ELSE drawMove(U1, S, pos)

(***************************************************************************)
(* handleMouseUp (part_002:1238-1285).                                     *)
(***************************************************************************)
RECURSIVE Flatten(_)
Flatten(pts) ==
  IF pts = <<>> THEN <<>>
  ELSE <<Head(pts).x, Head(pts).y>> \o Flatten(Tail(pts))

hasSize(shape) ==
  \/ shape.width # 0
  \/ shape.height # 0
  \/ /\ Len(shape.points) = 4
     /\ (shape.points[1] # shape.points[3] \/ shape.points[2] # shape.points[4])

mouseUp(U, S) ==
  LET S1 == IF tool = "eraser" THEN eraseSelected(S, erasedElements) ELSE S
      U1 == [U EXCEPT !.isMouseDown = FALSE,
                      !.erasedElements = IF tool = "eraser" THEN <<>> ELSE @,
                      !.isPanning = FALSE, !.isDragging = FALSE,
                      !.isResizing = FALSE, !.resizeHandle = NullStr,
                      !.lastPanPoint = Null, !.tempGuides = <<>>]
  IN IF ~isDrawing THEN [ui |-> U1, st |-> S1]
     ELSE IF tool = "pen" /\ Len(currentPath) > 0
     THEN [ui |-> [U1 EXCEPT !.isDrawing = FALSE, !.currentPath = <<>>,
                             !.startPos = Null],
           st |-> collaborativeAddPath(S1, Path(now, Flatten(currentPath)))]
     ELSE IF currentShape # Null
     THEN [ui |-> [U1 EXCEPT !.isDrawing = FALSE, !.currentShape = Null,
                             !.startPos = Null],
           st |-> IF hasSize(currentShape)
                  THEN collaborativeAddShape(S1, currentShape) ELSE S1]
     ELSE [ui |-> [U1 EXCEPT !.isDrawing = FALSE, !.startPos = Null], st |-> S1]

(***************************************************************************)
(* Inputs.                                                                 *)
(***************************************************************************)
Tools == {"select", "hand", "pen", "rectangle", "line", "eraser"}

\* client positions of pointer events
ClientPoints == {<<20, 20>>, <<30, 30>>, <<50, 50>>}

\* what localStorage may hold when the store is created (loadInitialData)
RectA == Shape(11, "rectangle", 10, 10, 20, 20, <<>>)
InitialDataSet == { EmptyState, [paths |-> <<>>, shapes |-> <<RectA>>] }

\* what the shared document holds when another client has cleared it
RemoteStates == { EmptyState }

UpdateInputs == { [opacity |-> 5] }

\* the entity an add intent creates: id = Date.now()
NewPath == Path(now, <<0, 0, 10, 10>>)
NewShape == Shape(now, "rectangle", 0, 0, 10, 10, <<>>)

(***************************************************************************)
(* Initial state: the store as created (part_003:140-607), the component   *)
(* mounted (part_002:67-154: initializeCollaboration has built the service *)
(* and registered the callback; the constructor's doc.subscribe is in      *)
(* flight).                                                                *)
(***************************************************************************)
InitWith(initialData) ==
  /\ tool = "pen"
  /\ paths = initialData.paths
  /\ shapes = initialData.shapes
  /\ selectedIds = <<>>
  /\ stagePos = Pt(0, 0)
  /\ stageScale = ScaleOne
  /\ snapEnabled = TRUE
  /\ history = IF Len(initialData.paths) > 0 \/ Len(initialData.shapes) > 0
               THEN <<initialData>> ELSE <<>>
  /\ historyIndex = IF Len(initialData.paths) > 0 \/ Len(initialData.shapes) > 0
                    THEN 0 ELSE -1
  /\ isCollaborating = FALSE
  /\ isCollabLoading = FALSE
  /\ collabError = NullStr
  /\ collabService = TRUE
  /\ storage = IF initialData = EmptyState THEN NoData ELSE initialData
  /\ isConnected = FALSE
  /\ onStateChange = TRUE
  /\ doc = Null
  /\ connectionOpen = TRUE
  /\ subscribePending = FALSE
  /\ mountPending = TRUE
  /\ isDrawing = FALSE
  /\ isPanning = FALSE
  /\ isDragging = FALSE
  /\ isResizing = FALSE
  /\ resizeHandle = NullStr
  /\ startPos = Null
  /\ lastPanPoint = Null
  /\ dragOffset = Pt(0, 0)
  /\ currentPath = <<>>
  /\ currentShape = Null
  /\ tempGuides = <<>>
  /\ erasedElements = <<>>
  /\ isMouseDown = FALSE
  /\ dialogConfig = NullStr
  /\ editingText = Null
  /\ listenerSnap = TRUE
  /\ now = 1
  /\ events = 0

Init == \E initialData \in InitialDataSet : InitWith(initialData)

(***************************************************************************)
(* Actions.  `cap` bounds the length of the history log an action may      *)
(* leave behind.                                                           *)
(***************************************************************************)
\* a handler of the component
Handle(r, cap) ==
  /\ Len(r.st.history) <= cap
  /\ SetUI(r.ui)
  /\ SetStore(r.st)

\* a call of a store function from outside the canvas handlers
StoreCall(T, cap) ==
  /\ Len(T.history) <= cap
  /\ SetStore(T)
  /\ UNCHANGED <<uiVars, stagePos>>

\* the tools whose pointer-down reads Date.now() for an id
StampsId(t) == t \in ShapeTools \/ t = "text"

HandleMouseDown(cap) ==
  \E p \in ClientPoints, shiftKey \in BOOLEAN :
    /\ StampsId(tool) => now <= MaxNow
    /\ Handle(mouseDown(CurUI, Cur, p[1], p[2], shiftKey), cap)
    /\ now' = IF StampsId(tool) THEN now + 1 ELSE now
    /\ UNCHANGED <<tool, stageScale, snapEnabled, netVars>>

HandleMouseMove(cap) ==
  \E p \in ClientPoints :
    LET r == mouseMove(CurUI, Cur, p[1], p[2])
    IN /\ Len(r.ui.currentPath) <= MaxPath
       /\ Abs(r.ui.stagePos.x) <= MaxPan
       /\ Abs(r.ui.stagePos.y) <= MaxPan
       /\ Handle(r, cap)
       /\ UNCHANGED <<tool, stageScale, snapEnabled, netVars, now>>

HandleMouseUp(cap) ==
  LET addsPath == isDrawing /\ tool = "pen" /\ Len(currentPath) > 0
  IN /\ addsPath => now <= MaxNow
     /\ Handle(mouseUp(CurUI, Cur), cap)
     /\ now' = IF addsPath THEN now + 1 ELSE now
     /\ UNCHANGED <<tool, stageScale, snapEnabled, netVars>>

\* KeyboardShortcuts registers its keydown listener in an effect that runs
\* again only after a render in which tool or stageScale changed (the
\* dependency list, keyboard-shortcuts.tsx:218-232; the store's functions
\* keep their identity).  The new listener captures the snapEnabled of that
\* render.
Relisten(newTool, newScale) ==
  IF newTool # tool \/ newScale # stageScale THEN snapEnabled ELSE listenerSnap

\* the component state after a render with the given tool, scale and offset
Rendered(newTool, newScale, newPos) ==
  SetUI([CurUI EXCEPT !.stagePos = newPos,
                      !.listenerSnap = Relisten(newTool, newScale)])

\* toolbar button or tool shortcut (keyboard-shortcuts.tsx:103-141)
SetTool ==
  \E t \in Tools :
    /\ t # tool
    /\ tool' = t
    /\ Rendered(t, stageScale, stagePos)
    /\ UNCHANGED <<storeVars, stageScale, snapEnabled, netVars, now>>

(***************************************************************************)
(* Keyboard, panel and menu (keyboard-shortcuts.tsx, properties-panel.tsx, *)
(* part_002:1312-1331, 1432-1439).                                         *)
(***************************************************************************)
Rest == <<tool, stageScale, snapEnabled, netVars, now>>

\* KeyboardShortcuts' handleKeyDown (keyboard-shortcuts.tsx:71-216) on the
\* store: the branches in the code's order, each ending in `return`.  The
\* keys that write the tool, the snap flag and the viewport are left to
\* their own actions; `confirmed` is the answer to confirm().
handleKeyDown(S, key, isCtrl, isShift, confirmed) ==
  IF isCtrl /\ key = "z" /\ ~isShift THEN undo(S)
  ELSE IF isCtrl /\ (key = "y" \/ (key = "z" /\ isShift)) THEN redo(S)
  ELSE IF key = "Delete" \/ key = "Backspace" THEN deleteSelected(S)
  ELSE IF key = "Escape" THEN clearSelection(S)
  ELSE IF isCtrl /\ key = "a"
  THEN setSelectedIds(S, [i \in 1..Len(S.shapes) |-> S.shapes[i].id])
  ELSE IF isCtrl /\ isShift /\ key = "Delete"
  THEN IF confirmed THEN clearSelection(clearShapes(clearPaths(S))) ELSE S
  ELSE S

Undo(cap) == StoreCall(undo(Cur), cap) /\ UNCHANGED Rest

Redo(cap) == StoreCall(redo(Cur), cap) /\ UNCHANGED Rest

\* Ctrl+A
SelectAll(cap) ==
  /\ StoreCall(setSelectedIds(Cur, [i \in 1..Len(shapes) |-> shapes[i].id]), cap)
  /\ UNCHANGED Rest

\* Escape
Escape(cap) == StoreCall(clearSelection(Cur), cap) /\ UNCHANGED Rest

\* Delete / Backspace: KeyboardShortcuts deletes at once; the canvas's own
\* listener asks for confirmation when something was selected.
KeyDelete(cap) ==
  \E isCtrl, isShift \in BOOLEAN :
    LET T == handleKeyDown(Cur, "Delete", isCtrl, isShift, TRUE)
    IN /\ Len(T.history) <= cap
       /\ SetStore(T)
       /\ SetUI([CurUI EXCEPT !.dialogConfig =
                    IF Len(selectedIds) > 0 THEN "delete" ELSE @])
       /\ UNCHANGED Rest

\* CanvasOperations -> onClearCanvas
RequestClear ==
  /\ dialogConfig # "clear"
  /\ SetUI([CurUI EXCEPT !.dialogConfig = "clear"])
  /\ UNCHANGED <<storeVars, Rest>>

DialogConfirm(cap) ==
  /\ dialogConfig # NullStr
  /\ LET T == IF dialogConfig = "delete" THEN collaborativeDeleteSelected(Cur)
              ELSE collaborativeClearCanvas(Cur)
     IN /\ Len(T.history) <= cap
        /\ SetStore(T)
        /\ SetUI([CurUI EXCEPT !.dialogConfig = NullStr,
                               !.tempGuides = IF dialogConfig = "clear"
                                              THEN <<>> ELSE @])
  /\ UNCHANGED Rest

DialogCancel ==
  /\ dialogConfig # NullStr
  /\ SetUI([CurUI EXCEPT !.dialogConfig = NullStr])
  /\ UNCHANGED <<storeVars, Rest>>

\* loadFromLocalStorage() in single-file mode
Load(cap) == StoreCall(loadFromLocalStorage(Cur), cap) /\ UNCHANGED Rest

(***************************************************************************)
(* The engine's intents called one at a time (the properties panel, the    *)
(* canvas handlers and the menus all go through them).                     *)
(***************************************************************************)
IntentAddPath(cap) ==
  /\ now <= MaxNow
  /\ StoreCall(collaborativeAddPath(Cur, NewPath), cap)
  /\ now' = now + 1
  /\ UNCHANGED <<tool, stageScale, snapEnabled, netVars>>

IntentAddShape(cap) ==
  /\ now <= MaxNow
  /\ StoreCall(collaborativeAddShape(Cur, NewShape), cap)
  /\ now' = now + 1
  /\ UNCHANGED <<tool, stageScale, snapEnabled, netVars>>

IntentUpdateShape(cap) ==
  \E id \in Ids(shapes), updates \in UpdateInputs :
    /\ StoreCall(collaborativeUpdateShape(Cur, id, updates), cap)
    /\ UNCHANGED Rest

IntentDeleteSelected(cap) ==
  /\ Len(selectedIds) > 0
  /\ StoreCall(collaborativeDeleteSelected(Cur), cap)
  /\ UNCHANGED Rest

IntentClearCanvas(cap) ==
  /\ StoreCall(collaborativeClearCanvas(Cur), cap)
  /\ UNCHANGED Rest

\* the store call of handleMouseDown's select branch (part_002:1049-1057)
Select(cap) ==
  \E id \in Ids(shapes), shiftKey \in BOOLEAN :
    /\ ~Includes(selectedIds, id)
    /\ StoreCall(setSelectedIds(Cur, IF shiftKey THEN Append(selectedIds, id)
                                      ELSE <<id>>), cap)
    /\ UNCHANGED Rest

(***************************************************************************)
(* Collaboration (part_003:501-550, collaboration-service.ts:16-134).      *)
(***************************************************************************)
Frame == <<tool, stageScale, snapEnabled, now, uiVars, stagePos>>

\* what a (re)subscription finds on the server
Fetched == RemoteStates \cup (IF doc # Null THEN {doc} ELSE {})

\* the constructor's doc.subscribe callback (setupEventListeners)
MountSubscribed ==
  /\ mountPending /\ connectionOpen
  /\ \E data \in Fetched :
       SetStore(notifyStateChange([Cur EXCEPT !.doc = data, !.isConnected = TRUE]))
  /\ mountPending' = FALSE
  /\ UNCHANGED <<Frame, connectionOpen, subscribePending>>

\* ... called with an error: `throw err`
MountSubscribeFails ==
  /\ mountPending
  /\ mountPending' = FALSE
  /\ UNCHANGED <<Frame, storeVars, connectionOpen, subscribePending>>

\* the toggle button (disabled while loading)
ToggleCollaboration ==
  /\ ~isCollabLoading
  /\ collabService
  /\ IF isCollaborating
     THEN /\ SetStore([svc_disconnect(Cur) EXCEPT !.isCollaborating = FALSE,
                                                   !.collabError = NullStr])
          /\ connectionOpen' = FALSE
          /\ UNCHANGED subscribePending
     ELSE /\ SetStore([Cur EXCEPT !.isCollabLoading = TRUE, !.collabError = NullStr])
          /\ subscribePending' = TRUE
          /\ UNCHANGED connectionOpen
  /\ UNCHANGED <<Frame, mountPending>>

\* subscribe() resolves, and toggleCollaboration continues after the await
SubscribeResolved ==
  /\ subscribePending
  /\ \E data \in Fetched :
       LET S1 == notifyStateChange([Cur EXCEPT !.doc = data, !.isConnected = TRUE])
           initialState == getCurrentState(S1)
           S2 == setShapes(setPaths(S1, initialState.paths), initialState.shapes)
       IN SetStore([S2 EXCEPT !.isCollaborating = TRUE, !.isCollabLoading = FALSE])
  /\ subscribePending' = FALSE
  /\ connectionOpen' = TRUE
  /\ UNCHANGED <<Frame, mountPending>>

\* toggleCollaboration's catch and finally blocks (part_003:543-548)
subscribeRejected(S) ==
  [S EXCEPT !.collabError = "failed", !.isCollabLoading = FALSE]

\* subscribe() rejects
SubscribeRejected ==
  /\ subscribePending
  /\ SetStore(subscribeRejected(Cur))
  /\ subscribePending' = FALSE
  /\ UNCHANGED <<Frame, mountPending, connectionOpen>>

\* an operation of another client arrives: doc.on("op")
RemoteOp ==
  /\ isConnected /\ connectionOpen /\ doc # Null
  /\ \E data \in RemoteStates :
       /\ data # doc
       /\ SetStore(submitOp(Cur, data))
  /\ UNCHANGED <<Frame, netVars>>

(***************************************************************************)
(* Specifications.                                                         *)
(***************************************************************************)
\* a call of the store's interface, outside the canvas's event handlers
Call(A) == A /\ UNCHANGED events

\* the store behind its interface
StoreNext ==
  \/ Call(IntentAddPath(MaxHist))
  \/ Call(IntentAddShape(MaxHist))
  \/ Call(IntentUpdateShape(MaxHist))
  \/ Call(IntentDeleteSelected(MaxHist))
  \/ Call(IntentClearCanvas(MaxHist))
  \/ Call(Select(MaxHist))
  \/ Call(SelectAll(MaxHist))
  \/ Call(Escape(MaxHist))
  \/ Call(Undo(MaxHist))
  \/ Call(Redo(MaxHist))
  \/ Call(Load(MaxHist))
  \/ Call(MountSubscribed)
  \/ Call(MountSubscribeFails)
  \/ Call(ToggleCollaboration)
  \/ Call(SubscribeResolved)
  \/ Call(SubscribeRejected)
  \/ Call(RemoteOp)

StoreSpec == Init /\ [][StoreNext]_vars

\* an input event of the canvas; MaxEvents bounds the length of a session
Event(A) == events < MaxEvents /\ A /\ events' = events + 1

\* the canvas under pointer, keyboard and toolbar events
Next ==
  \/ Event(HandleMouseDown(MaxHist))
  \/ Event(HandleMouseMove(MaxHist))
  \/ Event(HandleMouseUp(MaxHist))
  \/ Event(SetTool)
  \/ Event(KeyDelete(MaxHist))
  \/ Event(RequestClear)
  \/ Event(DialogConfirm(MaxHist))
  \/ Event(DialogCancel)
  \/ Event(Undo(MaxHist))
  \/ Event(Redo(MaxHist))
  \/ Event(SelectAll(MaxHist))
  \/ Event(Escape(MaxHist))
  \/ Event(MountSubscribed)
  \/ Event(MountSubscribeFails)

Spec == Init /\ [][Next]_vars

\* the history log driven to its capacity: commits at the tip of the log,
\* undo and redo anywhere
Commit ==
  /\ now <= MaxCommits
  /\ ~canRedo(Cur)
  /\ StoreCall(addPath(Cur, NewPath), HistoryLimit + 1)
  /\ now' = now + 1
  /\ UNCHANGED <<tool, stageScale, snapEnabled, netVars>>

CapNext ==
  \/ Call(Commit)
  \/ Call(Undo(HistoryLimit + 1))
  \/ Call(Redo(HistoryLimit + 1))

CapSpec == Init /\ [][CapNext]_vars

(***************************************************************************)
(* The canvas under pointer gestures alone: a drawing loaded from          *)
(* localStorage with two rectangles and a freehand path, and the pointer,  *)
(* tool, snap and zoom events.  The collaboration server never answers.    *)
(***************************************************************************)
RectB == Shape(12, "rectangle", 50, 10, 20, 20, <<>>)
PathP == Path(13, <<10, 50, 30, 50>>)
CanvasData == [paths |-> <<PathP>>, shapes |-> <<RectA, RectB>>]

\* client positions of the pointer: corner, centre and one pixel off the
\* centre and off the corner of RectA, a far point, a point of RectB and
\* a point of PathP
CanvasPoints ==
  {<<10, 10>>, <<20, 20>>, <<21, 21>>, <<31, 31>>, <<110, 60>>, <<60, 24>>,
   <<20, 50>>}

CanvasInit == InitWith(CanvasData)

\* the pointer lands on a whole canvas coordinate
OnGrid(p) ==
  /\ ((p[1] - stagePos.x) * ScaleOne) % stageScale = 0
  /\ ((p[2] - stagePos.y) * ScaleOne) % stageScale = 0

CanvasMouseDown ==
  \E p \in CanvasPoints, shiftKey \in BOOLEAN :
    /\ OnGrid(p)
    /\ StampsId(tool) => now <= MaxNow
    /\ Handle(mouseDown(CurUI, Cur, p[1], p[2], shiftKey), MaxHist + 1)
    /\ now' = IF StampsId(tool) THEN now + 1 ELSE now
    /\ UNCHANGED <<tool, stageScale, snapEnabled, netVars>>

CanvasMouseMove ==
  \E p \in CanvasPoints :
    LET r == mouseMove(CurUI, Cur, p[1], p[2])
    IN /\ OnGrid(p)
       /\ Len(r.ui.currentPath) <= MaxPath
       /\ Abs(r.ui.stagePos.x) <= MaxPan
       /\ Abs(r.ui.stagePos.y) <= MaxPan
       /\ Handle(r, MaxHist + 1)
       /\ UNCHANGED <<tool, stageScale, snapEnabled, netVars, now>>

CanvasMouseUp == HandleMouseUp(MaxHist + 1)

\* the toolbar's snap button: onClick of the current render
ToggleSnap ==
  /\ snapEnabled' = ~snapEnabled
  /\ UNCHANGED <<storeVars, tool, stagePos, stageScale, netVars, uiVars, now>>

\* Ctrl+= from scale 1: Math.min(5, stageScale * 1.2)
ZoomIn ==
  /\ stageScale = ScaleOne
  /\ stageScale' = Min(5 * ScaleOne, (stageScale * ZoomStep) \div ScaleOne)
  /\ Rendered(tool, Min(5 * ScaleOne, (stageScale * ZoomStep) \div ScaleOne),
              stagePos)
  /\ UNCHANGED <<storeVars, tool, snapEnabled, netVars, now>>

\* Ctrl+0 / Ctrl+1
ZoomReset ==
  /\ stageScale # ScaleOne \/ stagePos # Pt(0, 0)
  /\ stageScale' = ScaleOne
  /\ Rendered(tool, ScaleOne, Pt(0, 0))
  /\ UNCHANGED <<storeVars, tool, snapEnabled, netVars, now>>

\* a step of a gesture; the drawing stays on the whole-pixel grid (every
\* snap point, centres included, has whole coordinates)
Gesture(A) ==
  /\ events < MaxGesture
  /\ A
  /\ events' = events + 1
  /\ \A i \in 1..Len(shapes') :
       shapes'[i].width % 2 = 0 /\ shapes'[i].height % 2 = 0

CanvasNext ==
  \/ Gesture(CanvasMouseDown)
  \/ Gesture(CanvasMouseMove)
  \/ Gesture(CanvasMouseUp)
  \/ Gesture(SetTool)
  \/ Gesture(ToggleSnap)
  \/ Gesture(ZoomIn)
  \/ Gesture(ZoomReset)

CanvasSpec == CanvasInit /\ [][CanvasNext]_vars

(***************************************************************************)
(* The canvas with text entry: the text tool, the double click and the     *)
(* text input rendered over the canvas (part_002:1469-1494).               *)
(***************************************************************************)
TextInputs == {<<" ">>, <<"a", "b">>}

\* shortcut 't' or '8'
TextTool ==
  /\ tool # "text"
  /\ tool' = "text"
  /\ Rendered("text", stageScale, stagePos)
  /\ UNCHANGED <<storeVars, stageScale, snapEnabled, netVars, now>>

\* onDoubleClick, the pointer being up after the second click
DoubleClick ==
  \E p \in CanvasPoints :
    /\ OnGrid(p)
    /\ ~isMouseDown
    /\ now <= MaxNow
    /\ SetUI(handleDoubleClick(CurUI, p[1], p[2]))
    /\ now' = now + 1
    /\ UNCHANGED <<storeVars, tool, stageScale, snapEnabled, netVars>>

\* onChange of the input
TextInput ==
  \E t \in TextInputs :
    /\ editingText # Null
    /\ t # editingText.text
    /\ SetUI([CurUI EXCEPT !.editingText.text = t])
    /\ UNCHANGED <<storeVars, tool, stageScale, snapEnabled, netVars, now>>

\* Enter in the input, or the input losing focus
TextCommit ==
  /\ editingText # Null
  /\ Handle(completeTextEditing(CurUI, Cur), MaxHist + 1)
  /\ UNCHANGED <<tool, stageScale, snapEnabled, netVars, now>>

\* Escape in the input
TextEscape ==
  /\ editingText # Null
  /\ SetUI([CurUI EXCEPT !.editingText = Null])
  /\ UNCHANGED <<storeVars, tool, stageScale, snapEnabled, netVars, now>>

\* Ctrl+S: setSnapEnabled(!snapEnabled) with the snapEnabled the listener
\* captured; snapEnabled is not in the effect's dependency list, so the
\* listener stays as it is.  v is [snapEnabled, listenerSnap].
ctrlS(v) == [v EXCEPT !.snapEnabled = ~v.listenerSnap]

SnapState == [snapEnabled |-> snapEnabled, listenerSnap |-> listenerSnap]

CtrlS ==
  /\ snapEnabled' = ctrlS(SnapState).snapEnabled
  /\ UNCHANGED <<storeVars, tool, stagePos, stageScale, netVars, uiVars, now>>

TextNext ==
  \/ Gesture(CanvasMouseDown)
  \/ Gesture(CanvasMouseMove)
  \/ Gesture(CanvasMouseUp)
  \/ Gesture(TextTool)
  \/ Gesture(DoubleClick)
  \/ Gesture(TextInput)
  \/ Gesture(TextCommit)
  \/ Gesture(TextEscape)
  \/ Gesture(ToggleSnap)
  \/ Gesture(CtrlS)

TextSpec == CanvasInit /\ [][TextNext]_vars

(***************************************************************************)
(* The viewport: wheel zoom (part_002:1288-1310), the store's zoom         *)
(* functions (part_003:254-270) and the zoom keys                          *)
(* (keyboard-shortcuts.tsx:177-215), with the pointer handlers.            *)
(***************************************************************************)
ScaleMin == 1
ScaleMax == 50
WheelStep == 1
MaxView == 3

\* variant: zooming out without the lower clamp
zoomOut_Unclamped(scale) == (scale * ScaleOne) \div ZoomStep

\* Math.min(currentScale * 1.2, 5)
zoomIn(scale) == Min((scale * ZoomStep) \div ScaleOne, ScaleMax)

\* Math.max(currentScale / 1.2, 0.1)
zoomOut(scale) == Max((scale * ScaleOne) \div ZoomStep, ScaleMin)

\* Math.max(0.1, Math.min(5, stageScale + direction * 0.1))
wheelScale(scale, direction) ==
  Max(ScaleMin, Min(ScaleMax, scale + direction * WheelStep))

\* the offset that keeps the canvas point under the mouse in place
wheelPos(mouse, pos, scale, newScale) ==
  Pt(mouse[1] - ((mouse[1] - pos.x) * newScale) \div scale,
     mouse[2] - ((mouse[2] - pos.y) * newScale) \div scale)

WheelPoints == {<<20, 20>>}

ViewRest == <<storeVars, tool, snapEnabled, netVars, now>>

handleWheel ==
  \E mouse \in WheelPoints, direction \in {-1, 1} :
    LET newScale == wheelScale(stageScale, direction)
        newPos == wheelPos(mouse, stagePos, stageScale, newScale)
    IN /\ Abs(newPos.x) <= MaxPan
       /\ Abs(newPos.y) <= MaxPan
       /\ stageScale' = newScale
       /\ Rendered(tool, newScale, newPos)
       /\ UNCHANGED ViewRest

\* the store's zoomIn(), and the keys + and = with or without Ctrl
StoreZoomIn ==
  /\ stageScale' = zoomIn(stageScale)
  /\ Rendered(tool, zoomIn(stageScale), stagePos)
  /\ UNCHANGED ViewRest

\* the store's zoomOut(), and the key - with or without Ctrl
StoreZoomOut ==
  /\ stageScale' = zoomOut(stageScale)
  /\ Rendered(tool, zoomOut(stageScale), stagePos)
  /\ UNCHANGED ViewRest

resetZoom ==
  /\ stageScale' = ScaleOne
  /\ Rendered(tool, ScaleOne, stagePos)
  /\ UNCHANGED ViewRest

\* the store's fitToScreen(), and Ctrl+0 / Ctrl+1
fitToScreen ==
  /\ stageScale' = ScaleOne
  /\ Rendered(tool, ScaleOne, Pt(0, 0))
  /\ UNCHANGED ViewRest

\* the zoom level is chosen, in any number of steps, before the gesture
Setup(A) == events = 0 /\ A /\ UNCHANGED events

\* a step of the gesture: a pointer event, a tool change or a wheel tick
View(A) == events < MaxView /\ A /\ events' = events + 1

ViewNext ==
  \/ Setup(StoreZoomIn)
  \/ Setup(StoreZoomOut)
  \/ Setup(resetZoom)
  \/ Setup(fitToScreen)
  \/ View(handleWheel)
  \/ View(HandleMouseDown(MaxHist + 1))
  \/ View(HandleMouseMove(MaxHist + 1))
  \/ View(HandleMouseUp(MaxHist + 1))
  \/ View(SetTool)

ViewSpec == CanvasInit /\ [][ViewNext]_vars

(***************************************************************************)
(* pointToLineDistance in the arithmetic of the code (utils.ts:9-40): the  *)
(* numbers are IEEE-754 doubles, so the quotient t, the product            *)
(* t * (x2 - x1) and the sum x1 + ... are each rounded to MantissaBits     *)
(* significant binary digits (to nearest, ties to even).  A value v >= 0   *)
(* is written exactly as the little-endian list of its digits in base      *)
(* LimbBase, the last limb holding the whole part.  (The hit-test compares *)
(* the distance with a threshold of half a stroke width, which rounding    *)
(* does not change on whole coordinates: WithinSegmentDistance above.)     *)
(***************************************************************************)
LimbBase == 2^LimbBits
\* enough fraction limbs for the quotient's round bit: the quotients met
\* here are at least 2^-16
FracLimbs == (MantissaBits + 16) \div LimbBits + 1
NumLimbs == FracLimbs + 1
Limbs == 1..NumLimbs

\* a whole number below LimbBase
FromInt(x) == [i \in Limbs |-> IF i = NumLimbs THEN x ELSE 0]

RECURSIVE AddFrom(_, _, _, _)
AddFrom(A, B, i, carry) ==
  IF i > NumLimbs THEN <<>>
  ELSE <<(A[i] + B[i] + carry) % LimbBase>>
         \o AddFrom(A, B, i + 1, (A[i] + B[i] + carry) \div LimbBase)

BigAdd(A, B) == AddFrom(A, B, 1, 0)

RECURSIVE SubFrom(_, _, _, _)
SubFrom(A, B, i, borrow) ==
  IF i > NumLimbs THEN <<>>
  ELSE <<(A[i] - B[i] - borrow + LimbBase) % LimbBase>>
         \o SubFrom(A, B, i + 1, IF A[i] - B[i] - borrow < 0 THEN 1 ELSE 0)

BigSub(A, B) == SubFrom(A, B, 1, 0)

RECURSIVE MulFrom(_, _, _, _)
MulFrom(A, m, i, carry) ==
  IF i > NumLimbs THEN <<>>
  ELSE <<(A[i] * m + carry) % LimbBase>>
         \o MulFrom(A, m, i + 1, (A[i] * m + carry) \div LimbBase)

MulSmall(A, m) == MulFrom(A, m, 1, 0)

\* the fraction limbs of rem / d, most significant first, and whether a
\* remainder is left
RECURSIVE DivFrom(_, _, _)
DivFrom(rem, d, k) ==
  IF k > FracLimbs THEN [limbs |-> <<0>>, inexact |-> rem # 0]
  ELSE LET rest == DivFrom((rem * LimbBase) % d, d, k + 1)
       IN [limbs |-> rest.limbs \o <<(rem * LimbBase) \div d>>,
           inexact |-> rest.inexact]

\* rem is the most significant limb last: limbs are little-endian
Quotient(n, d) ==
  LET q == DivFrom(n, d, 1)
  IN [limbs |-> [i \in Limbs |-> IF i = NumLimbs THEN 0
                                  ELSE q.limbs[i + 1]],
      inexact |-> q.inexact]

\* binary digit i (from 1, least significant) of A
Bit(A, i) == (A[(i - 1) \div LimbBits + 1] \div 2^((i - 1) % LimbBits)) % 2

BitLength(A) ==
  LET W == NumLimbs * LimbBits
  IN IF \A i \in 1..W : Bit(A, i) = 0 THEN 0
     ELSE CHOOSE i \in 1..W : Bit(A, i) = 1 /\ \A j \in (i + 1)..W : Bit(A, j) = 0

\* round to nearest, ties to even, at MantissaBits significant digits
Round(A, inexact) ==
  LET drop == BitLength(A) - MantissaBits
  IN IF drop <= 0 THEN A
     ELSE LET w == drop \div LimbBits + 1
              unit == 2^(drop % LimbBits)
              kept == [i \in Limbs |-> IF i < w THEN 0
                                       ELSE IF i = w THEN A[i] - (A[i] % unit)
                                       ELSE A[i]]
              ulp == [i \in Limbs |-> IF i = w THEN unit ELSE 0]
              sticky == inexact \/ \E i \in 1..(drop - 1) : Bit(A, i) = 1
              up == Bit(A, drop) = 1 /\ (sticky \/ Bit(A, drop + 1) = 1)
          IN IF up THEN BigAdd(kept, ulp) ELSE kept

\* x1 + t * (x2 - x1) with t = n / d, 0 < n < d
Projection(x1, x2, n, d) ==
  LET q == Quotient(n, d)
      t == Round(q.limbs, q.inexact)
      step == Round(MulSmall(t, IF x2 >= x1 THEN x2 - x1 ELSE x1 - x2), FALSE)
  IN Round(IF x2 >= x1 THEN BigAdd(FromInt(x1), step)
           ELSE BigSub(FromInt(x1), step), FALSE)

\* the sign of the double returned, 0 or 1: Math.sqrt of a sum of two
\* squares is zero exactly when both differences are, and is never negative
pointToLineDistance(px, py, x1, y1, x2, y2) ==
  LET lineLengthSq == (x2 - x1) * (x2 - x1) + (y2 - y1) * (y2 - y1)
      dot == (px - x1) * (x2 - x1) + (py - y1) * (y2 - y1)
  IN IF lineLengthSq = 0
     THEN IF px = x1 /\ py = y1 THEN 0 ELSE 1
     ELSE LET projectionX == IF dot <= 0 THEN FromInt(x1)
                             ELSE IF dot >= lineLengthSq THEN FromInt(x2)
                             ELSE Projection(x1, x2, dot, lineLengthSq)
              projectionY == IF dot <= 0 THEN FromInt(y1)
                             ELSE IF dot >= lineLengthSq THEN FromInt(y2)
                             ELSE Projection(y1, y2, dot, lineLengthSq)
          IN IF FromInt(px) = projectionX /\ FromInt(py) = projectionY
             THEN 0 ELSE 1

(***************************************************************************)
(* The hit-tests under the eraser: a drawing of one freehand path of one   *)
(* segment and of two overlapping rectangles is loaded and the pointer     *)
(* sweeps over it.                                                         *)
(***************************************************************************)
\* a rectangle that lies over the top-left corner of RectA
RectOver == Shape(14, "rectangle", 0, 0, 20, 20, <<>>)

GeomSegments ==
  {<<0, 0, 22, 0>>, <<10, 10, 10, 10>>, <<10, 50, 30, 50>>, <<0, 0, 20, 20>>}

GeomPoints ==
  {<<0, 0>>, <<15, 0>>, <<22, 0>>, <<15, 1>>, <<10, 10>>, <<5, 5>>, <<20, 50>>}

GeomInit ==
  \E seg \in GeomSegments :
    InitWith([paths |-> <<Path(13, seg)>>, shapes |-> <<RectA, RectOver>>])

GeomMouseDown ==
  \E p \in GeomPoints, shiftKey \in BOOLEAN :
    /\ StampsId(tool) => now <= MaxNow
    /\ Handle(mouseDown(CurUI, Cur, p[1], p[2], shiftKey), MaxHist + 1)
    /\ now' = IF StampsId(tool) THEN now + 1 ELSE now
    /\ UNCHANGED <<tool, stageScale, snapEnabled, netVars>>

GeomMouseMove ==
  \E p \in GeomPoints :
    LET r == mouseMove(CurUI, Cur, p[1], p[2])
    IN /\ Len(r.ui.currentPath) <= MaxPath
       /\ Abs(r.ui.stagePos.x) <= MaxPan
       /\ Abs(r.ui.stagePos.y) <= MaxPan
       /\ Handle(r, MaxHist + 1)
       /\ UNCHANGED <<tool, stageScale, snapEnabled, netVars, now>>

Sweep(A) == events < MaxSweep /\ A /\ events' = events + 1

GeomNext ==
  \/ Sweep(GeomMouseDown)
  \/ Sweep(GeomMouseMove)
  \/ Sweep(HandleMouseUp(MaxHist + 1))
  \/ Sweep(SetTool)

GeomSpec == GeomInit /\ [][GeomNext]_vars

(***************************************************************************)
(* A stored drawing with a line, as the line tool commits it               *)
(* (part_002:1081-1103, 1225-1232): x and y are the start of the drag,     *)
(* width and height stay 0 and points holds the two endpoints.             *)
(***************************************************************************)
LineL == Shape(15, "line", 20, 20, 0, 0, <<20, 20, 40, 30>>)

LineInit == InitWith([paths |-> <<>>, shapes |-> <<RectA, LineL>>])

LineNext ==
  \/ Sweep(CanvasMouseDown)
  \/ Sweep(CanvasMouseMove)
  \/ Sweep(CanvasMouseUp)
  \/ Sweep(SetTool)

LineSpec == LineInit /\ [][LineNext]_vars

(***************************************************************************)
(* The stroke outliner (part_002:18-65, 665-733).  The outline is the      *)
(* sequence of points the two loops of getStroke push; a point is written  *)
(* as the input sample it is offset from and the rail it belongs to (the   *)
(* perpendicular offset, half the pressure-scaled size, is not computed).  *)
(* The renderers return the polygon they fill, <<>> when they fill nothing.*)
(***************************************************************************)
getStroke(points) ==
  LET n == Len(points)
      forward == [i \in 1..(IF n = 0 THEN 0 ELSE n + 1) |->
                    IF i = 1 THEN [at |-> points[1], rail |-> "capLeft"]
                    ELSE IF i = 2 THEN [at |-> points[1], rail |-> "capRight"]
                    ELSE [at |-> points[i - 1], rail |-> "forward"]]
      back == [i \in 1..n |-> [at |-> points[n + 1 - i], rail |-> "return"]]
  IN forward \o back

\* the flat number list regrouped in pairs (the model's lists are even)
PointPairs(flat) ==
  [i \in 1..(Len(flat) \div 2) |-> Pt(flat[2 * i - 1], flat[2 * i])]

drawRealisticPath_Unguarded(path) == getStroke(PointPairs(path.points))

drawRealisticPath(path) ==
  IF Len(path.points) < 4 THEN <<>>
  ELSE LET points == PointPairs(path.points)
       IN IF Len(points) < 2 THEN <<>> ELSE getStroke(points)

drawCurrentRealisticPath(U) ==
  IF Len(U.currentPath) < 2 THEN <<>> ELSE getStroke(U.currentPath)

(***************************************************************************)
(* Properties of the history log.                                          *)
(***************************************************************************)
\* C1: whenever the history log is non-empty the cursor satisfies
\* 0 <= historyIndex < history.length, and historyIndex is -1 only while the
\* log is empty.
C1_CursorInvariant ==
  /\ historyIndex \in -1 .. Len(history) - 1
  /\ Len(history) > 0 => (0 <= historyIndex /\ historyIndex < Len(history))
  /\ historyIndex = -1 => Len(history) = 0

\* commits followed by an undo: the cursor is below the end of the log
C1_Witness == Len(history) > 1 /\ historyIndex = 0

\* C2: the log never holds more than 50 entries; a commit on a full log
\* evicts the oldest entry and keeps the rest in order; after n >= 50
\* consecutive commits (60 in the claim) the length is exactly 50 and the
\* cursor is on the newest snapshot; the oldest retained snapshot is the one
\* of commit n - 49 (the 11th of 60); every undo moves the cursor one entry
\* down the retained log, so 49 undos reach that snapshot and the 50th, at
\* cursor 0, stays on it.
C2_HistoryCapacity ==
  /\ Len(history) <= HistoryLimit
  /\ (Len(history) = HistoryLimit /\ ~canRedo(Cur)) =>
       LET T == addPath(Cur, NewPath)
       IN /\ T.history = Append(Tail(history), Snapshot(T))
          /\ T.historyIndex = HistoryLimit - 1
  /\ now - 1 >= HistoryLimit =>
       /\ Len(history) = HistoryLimit
       /\ ~canRedo(Cur) =>
            /\ historyIndex = HistoryLimit - 1
            /\ history[HistoryLimit] = Snapshot(Cur)
       /\ history[1].paths =
            SubSeq(history[HistoryLimit].paths, 1, now - HistoryLimit)
       /\ history[1].shapes = history[HistoryLimit].shapes
       /\ Snapshot(Cur) = history[historyIndex + 1]
       /\ canUndo(Cur) => undo(Cur).historyIndex = historyIndex - 1
       /\ historyIndex = 0 => undo(Cur) = Cur

\* all the commits made, then undo down to the oldest retained snapshot
C2_Witness == now - 1 = MaxCommits /\ historyIndex = 0

\* what each committing store function leaves behind when called now
CommitResults(S) ==
  { addPath(S, NewPath), addShape(S, NewShape), deleteSelected(S),
    clearPaths(S), clearShapes(S), clearCanvas(S) }
  \cup { updateShape(S, id, u) : id \in Ids(S.shapes), u \in UpdateInputs }
  \cup { deleteShape(S, id) : id \in Ids(S.shapes) }
  \cup { deletePath(S, id) : id \in Ids(S.paths) }
  \cup (IF S.storage # NoData THEN { loadFromLocalStorage(S) } ELSE {})

\* C3: immediately after any commit, whatever the cursor position before
\* it, every entry beyond the cursor is gone, the new snapshot is the last
\* entry, historyIndex = history.length - 1 and canRedo() is false.
C3_CommitTruncatesRedo ==
  historyIndex + 2 <= HistoryLimit =>
    \A T \in CommitResults(Cur) :
      /\ SubSeq(T.history, 1, Len(T.history) - 1)
           = SubSeq(history, 1, historyIndex + 1)
      /\ T.history[Len(T.history)] = Snapshot(T)
      /\ T.historyIndex = Len(T.history) - 1
      /\ ~canRedo(T)

\* a redo future exists and an add intent is enabled
C3_Witness == canRedo(Cur) /\ now <= MaxNow /\ ~collabActive(Cur)

\* C4: in every reachable state where redo is possible, redo() followed by
\* undo() leaves paths and shapes equal to their values before the redo and
\* the cursor where it was.
C4_RedoUndoInverse ==
  canRedo(Cur) =>
    LET T == undo(redo(Cur))
    IN /\ T.paths = paths
       /\ T.shapes = shapes
       /\ T.historyIndex = historyIndex

\* T is S after exactly one commit: the log of S up to its cursor, then one
\* new entry holding T's paths and shapes (the log is below capacity)
OneCommit(S, T) ==
  /\ T.history = Append(SubSeq(S.history, 1, S.historyIndex + 1), Snapshot(T))
  /\ T.historyIndex = S.historyIndex + 1

\* what each model-mutating intent leaves behind when issued now
IntentResults(S) ==
  { collaborativeAddPath(S, NewPath), collaborativeAddShape(S, NewShape),
    collaborativeClearCanvas(S) }
  \cup { collaborativeUpdateShape(S, id, u) :
           id \in Ids(S.shapes), u \in UpdateInputs }
  \cup (IF S.selectedIds # <<>> THEN { collaborativeDeleteSelected(S) } ELSE {})

\* C5: every model-mutating intent (add path, add shape, update shape,
\* delete selected, clear canvas) triggers exactly one history commit,
\* whether collaboration is active or not.
C5_OneCommitPerIntent ==
  historyIndex + 2 <= HistoryLimit =>
    \A T \in IntentResults(Cur) : OneCommit(Cur, T)

\* C6: undo() with cursor > 0 moves the cursor back by exactly one, sets
\* paths and shapes to the snapshot stored at the new cursor, empties the
\* selection and leaves the log unchanged; redo() with cursor < length - 1
\* does the same one step forward.
C6_UndoRedoStep ==
  /\ historyIndex > 0 =>
       LET T == undo(Cur)
       IN /\ T.historyIndex = historyIndex - 1
          /\ Snapshot(T) = history[historyIndex]
          /\ T.selectedIds = <<>>
          /\ T.history = history
  /\ historyIndex < Len(history) - 1 =>
       LET T == redo(Cur)
       IN /\ T.historyIndex = historyIndex + 1
          /\ Snapshot(T) = history[historyIndex + 2]
          /\ T.selectedIds = <<>>
          /\ T.history = history

\* something is selected and the canvas differs from the snapshot below
\* the cursor, so an undo changes both
C6_Witness ==
  /\ historyIndex > 0
  /\ selectedIds # <<>>
  /\ Snapshot(Cur) # history[historyIndex]

\* C7: undo() with cursor <= 0 (an empty log included) and redo() with
\* cursor = length - 1 change nothing: paths, shapes, selection, log and
\* cursor stay as they are.
C7_BoundaryNoOp ==
  /\ historyIndex <= 0 => undo(Cur) = Cur
  /\ historyIndex = Len(history) - 1 => redo(Cur) = Cur

\* both boundaries at once, with a selection and a canvas that a restored
\* snapshot would change
C7_Witness ==
  /\ historyIndex = 0
  /\ Len(history) = 1
  /\ selectedIds # <<>>
  /\ Snapshot(Cur) # history[1]

(***************************************************************************)
(* Properties of the selection and of the pointer session.                 *)
(***************************************************************************)
\* C8: deleting the selection removes every selected id from shapes and
\* paths, leaves the unselected entities in their original order, empties
\* the selection and adds exactly one history entry.
C8_DeleteSelected ==
  historyIndex + 2 <= HistoryLimit =>
    \A T \in { deleteSelected(Cur), collaborativeDeleteSelected(Cur) } :
      /\ T.shapes = FilterOutIds(shapes, selectedIds)
      /\ T.paths = FilterOutIds(paths, selectedIds)
      /\ T.selectedIds = <<>>
      /\ OneCommit(Cur, T)

\* C9: every id in selectedIds references a shape or a path currently in
\* the model.
C9_SelectionValid ==
  Range(selectedIds) \subseteq (Ids(shapes) \cup Ids(paths))

\* the interaction modes of the canvas; the eraser has no flag of its own,
\* its sweep runs while the pointer is down with the eraser tool
ActiveModes ==
  { m \in {"panning", "dragging", "resizing", "drawing", "erasing"} :
      CASE m = "panning" -> isPanning
        [] m = "dragging" -> isDragging
        [] m = "resizing" -> isResizing
        [] m = "drawing" -> isDrawing
        [] m = "erasing" -> tool = "eraser" /\ isMouseDown }

\* C10: at every instant at most one interaction mode is active among
\* panning, dragging, resizing, drawing and erasing.
C10_SessionExclusive == Cardinality(ActiveModes) <= 1

(***************************************************************************)
(* Properties of the pointer gestures.                                     *)
(***************************************************************************)
\* C11: after any pointer-up, whatever mode was active and whatever tool is
\* selected at release time, the panning, dragging, resizing and drawing
\* flags are false, the resize handle is cleared, there is no pending shape,
\* the freehand buffer and the eraser's touched set are empty and no
\* transient guide remains.
C11_PointerUpResets ==
  LET U == mouseUp(CurUI, Cur).ui
  IN /\ ~U.isPanning /\ ~U.isDragging /\ ~U.isResizing /\ ~U.isDrawing
     /\ U.resizeHandle = NullStr
     /\ U.currentShape = Null
     /\ U.currentPath = <<>>
     /\ U.erasedElements = <<>>
     /\ U.tempGuides = <<>>

\* the pointer position p in canvas coordinates, for a pointer on the grid
PointerAt(p) == getCanvasCoordinates(p[1], p[2])

\* the outcome of a select-tool pointer-down at p that hits a shape and no
\* resize handle of a selected shape; without shift the selection becomes
\* the shape hit alone, or, if keepGroup, stays as it is when the shape hit
\* is already selected
ShapeClick(keepGroup) ==
  tool = "select" =>
    \A p \in CanvasPoints, shiftKey \in BOOLEAN :
      LET pos == PointerAt(p)
          hit == findShapeAtPosition(pos.x, pos.y)
          r == mouseDown(CurUI, Cur, p[1], p[2], shiftKey)
      IN (OnGrid(p) /\ hit # Null /\ ResizeHit(pos) = {})
         => /\ r.st.selectedIds =
                 (IF shiftKey
                  THEN IF Includes(selectedIds, hit.id) THEN selectedIds
                       ELSE Append(selectedIds, hit.id)
                  ELSE IF keepGroup /\ Includes(selectedIds, hit.id)
                       THEN selectedIds
                       ELSE <<hit.id>>)
            /\ r.ui.isDragging
            /\ r.ui.dragOffset = Pt(pos.x - hit.x, pos.y - hit.y)

\* C12: with the select tool, a pointer-down that hits a shape (and no
\* resize handle of a selected shape) replaces the selection by exactly that
\* shape when shift is not held and extends the selection by that shape when
\* shift is held; the session becomes dragging with a drag offset equal to
\* the pointer position minus the origin of the shape hit.
C12_ShapeClickSelects == ShapeClick(FALSE)

\* C12 as amended: without shift the selection is replaced by exactly the
\* shape hit when that shape is not yet selected, and is left unchanged when
\* it is already selected (so that a group can be dragged by one of its
\* members); with shift it is extended; the session becomes dragging with the
\* drag offset as stated.
C12_ShapeClickSelects_Amended == ShapeClick(TRUE)

\* two shapes are selected and a drag has begun on one of them
C12_Witness ==
  /\ tool = "select"
  /\ isDragging
  /\ Len(selectedIds) = 2
  /\ findShapeAtPosition(startPos.x, startPos.y) # Null
  /\ Includes(selectedIds, findShapeAtPosition(startPos.x, startPos.y).id)

\* C13: with the select tool, a pointer-down that hits a freehand path (no
\* shape and no resize handle under the pointer) puts that path's id into
\* the selection and enters dragging.
C13_PathClickSelects ==
  tool = "select" =>
    \A p \in CanvasPoints, shiftKey \in BOOLEAN :
      LET pos == PointerAt(p)
          hitPath == findPathAtPosition(pos.x, pos.y)
          r == mouseDown(CurUI, Cur, p[1], p[2], shiftKey)
      IN (/\ OnGrid(p)
          /\ hitPath # Null
          /\ findShapeAtPosition(pos.x, pos.y) = Null
          /\ ResizeHit(pos) = {})
         => /\ Includes(r.st.selectedIds, hitPath.id)
            /\ r.ui.isDragging

\* C14: a committed freehand path has at least 2 points: a pen pointer-down
\* followed at once by pointer-up (a 1-point buffer) commits no path and
\* adds no history entry.
C14_PathHasTwoPoints ==
  /\ \A i \in 1..Len(paths) : Len(paths[i].points) >= 4
  /\ (tool = "pen" /\ isDrawing /\ Len(currentPath) = 1) =>
       LET T == mouseUp(CurUI, Cur).st
       IN T.paths = paths /\ T.history = history /\ T.historyIndex = historyIndex


\* nonzero size as the specification words it: width or height nonzero, or
\* for a line or an arrow two different endpoints
NonzeroSize(shape) ==
  \/ shape.width # 0
  \/ shape.height # 0
  \/ /\ shape.type \in {"line", "arrow"}
     /\ Len(shape.points) = 4
     /\ <<shape.points[1], shape.points[2]>> # <<shape.points[3], shape.points[4]>>

\* C15: with a shape tool, pointer-up commits the pending shape if and only
\* if it has nonzero size; a click without any drag adds no shape and no
\* history entry, and in every case the pending shape is discarded.
C15_ShapeCommit ==
  (tool \in ShapeTools /\ isDrawing /\ currentShape # Null) =>
    LET r == mouseUp(CurUI, Cur)
    IN /\ r.ui.currentShape = Null
       /\ IF NonzeroSize(currentShape)
          THEN r.st.shapes = Append(shapes, currentShape) /\ OneCommit(Cur, r.st)
          ELSE /\ r.st.shapes = shapes
               /\ r.st.history = history
               /\ r.st.historyIndex = historyIndex

\* C16: drawing a rectangle or a circle from p0 to p1: the pending shape is
\* anchored at the snapped p0, after a pointer-move to p1 its far corner
\* (x + width, y + height) is the snapped p1 with the anchor unchanged, and
\* pointer-up commits it as it is; drawing from (10,10) to (110,60) yields
\* x = 10, y = 10, width = 100, height = 50.
C16_RectGeometry ==
  tool \in {"rectangle", "circle"} =>
    /\ \A p0 \in CanvasPoints :
         LET pos == PointerAt(p0)
             s0 == applySnapping(pos.x, pos.y, Null)
             pending == mouseDown(CurUI, Cur, p0[1], p0[2], FALSE).ui.currentShape
         IN OnGrid(p0) =>
              /\ pending.x = s0.x /\ pending.y = s0.y
              /\ pending.width = 0 /\ pending.height = 0
    /\ (isDrawing /\ currentShape # Null /\ startPos # Null) =>
         /\ \A p1 \in CanvasPoints :
              LET pos == PointerAt(p1)
                  s1 == applySnapping(pos.x, pos.y, currentShape)
                  moved == mouseMove(CurUI, Cur, p1[1], p1[2]).ui.currentShape
              IN OnGrid(p1) =>
                   /\ moved.x = currentShape.x /\ moved.y = currentShape.y
                   /\ moved.x + moved.width = s1.x
                   /\ moved.y + moved.height = s1.y
                   /\ (/\ p1 = <<110, 60>> /\ startPos = Pt(10, 10)
                       /\ stagePos = Pt(0, 0) /\ stageScale = ScaleOne)
                      => /\ moved.x = 10 /\ moved.y = 10
                         /\ moved.width = 100 /\ moved.height = 50
         /\ NonzeroSize(currentShape) =>
              mouseUp(CurUI, Cur).st.shapes = Append(shapes, currentShape)

\* a drag is in progress on the shape under the pointer-down position: the
\* select tool is active, dragging is the only active mode, and the shape
\* hit is selected and lies at the pointer position minus the drag offset
DragOf(hit) ==
  /\ tool = "select" /\ ActiveModes = {"dragging"} /\ startPos # Null
  /\ hit # Null
  /\ Includes(selectedIds, hit.id)
  /\ dragOffset = Pt(startPos.x - hit.x, startPos.y - hit.y)

\* snapping leaves the point (x, y) where it is
SnapAbsent(x, y) ==
  LET s == applySnapping(x, y, Null) IN s.x = x /\ s.y = y

\* C17: dragging, absent snapping: after a select-tool pointer-down at p0
\* that hits a shape and a pointer-move to p1, that shape's (x, y) is its
\* original (x, y) plus (p1 - p0); every selected shape is written the same
\* (x, y) as the shape hit.
C17_DragMoves ==
  startPos # Null =>
    LET hit == findShapeAtPosition(startPos.x, startPos.y)
    IN DragOf(hit) =>
         \A p1 \in CanvasPoints :
           LET pos == PointerAt(p1)
               T == mouseMove(CurUI, Cur, p1[1], p1[2]).st
               x1 == hit.x + (pos.x - startPos.x)
               y1 == hit.y + (pos.y - startPos.y)
           IN (OnGrid(p1) /\ SnapAbsent(x1, y1)) =>
                \A i \in 1..Len(shapes) :
                  IF Includes(selectedIds, shapes[i].id)
                  THEN T.shapes[i] = [shapes[i] EXCEPT !.x = x1, !.y = y1]
                  ELSE T.shapes[i] = shapes[i]

\* two shapes are selected and a drag has moved both to the same place,
\* away from where they were loaded
C17_Witness ==
  /\ startPos # Null
  /\ DragOf(findShapeAtPosition(startPos.x, startPos.y))
  /\ Len(selectedIds) = 2
  /\ \A i \in 1..Len(shapes) : shapes[i].x = 100 /\ shapes[i].y = 46

(***************************************************************************)
(* Properties of snapping.                                                 *)
(***************************************************************************)
\* the snap points of every shape (excluded left out), undoubled: whole
\* numbers, since every width and height on the canvas is even
SnapPointSet(excluded) ==
  { Pt(q.x \div 2, q.y \div 2) : q \in Range(getAllSnapPoints(excluded)) }

\* the four corners of a shape's bounding box
Corners(s) ==
  { Pt(s.x, s.y), Pt(s.x + s.width, s.y), Pt(s.x, s.y + s.height),
    Pt(s.x + s.width, s.y + s.height) }

\* candidate points far from the drawing
FarCandidates == { Pt(120, 80), Pt(150, 120) }

\* C18: with snapping enabled at scale 1, a candidate 5 px from a shape's
\* corner on an axis (every other snap coordinate being farther) is snapped
\* onto that corner's coordinate with exactly one guide per snapped axis; a
\* candidate 50 px away from every snap point is unchanged with no guide.
C18_DefaultTolerance ==
  (snapEnabled /\ stageScale = ScaleOne) =>
    /\ \A i \in 1..Len(shapes) : \A c \in Corners(shapes[i]) :
         \A dx \in {-5, 5}, dy \in {-5, 5} :
           LET x == c.x + dx
               y == c.y + dy
               r == applySnapping(x, y, Null)
           IN (\A q \in SnapPointSet(Null) :
                  /\ q.x = c.x \/ Abs(x - q.x) > 5
                  /\ q.y = c.y \/ Abs(y - q.y) > 5)
              => /\ r.x = c.x /\ r.y = c.y
                 /\ r.guides = << [type |-> "vertical", position |-> c.x],
                                  [type |-> "horizontal", position |-> c.y] >>
    /\ \A f \in FarCandidates :
         LET r == applySnapping(f.x, f.y, Null)
         IN (\A q \in SnapPointSet(Null) :
                Abs(f.x - q.x) >= 50 /\ Abs(f.y - q.y) >= 50)
            => r.x = f.x /\ r.y = f.y /\ r.guides = <<>>

\* candidate points near the loaded drawing and away from it
SnapCandidates ==
  { Pt(x, y) : x \in {11, 12, 20, 49, 120}, y \in {10, 21, 35} }

\* the least distance from v to a coordinate of Q, and whether it is within
\* the tolerance divided by the zoom scale
LeastDistance(v, Q) == CHOOSE d \in { Abs(v - q) : q \in Q } :
                         \A q \in Q : d <= Abs(v - q)
SnapsTo(v, Q) ==
  Q # {} /\ LeastDistance(v, Q) * stageScale <= SnapPixels * ScaleOne

\* C19: the returned X is the X of the snap point with minimum |x - X| if
\* that minimum is within tolerance / scale and the input X otherwise, with
\* exactly one vertical guide at that X iff X snapped; Y is decided in the
\* same way, independently, with a horizontal guide.
C19_NearestPerAxis ==
  snapEnabled =>
    LET Xs == { q.x : q \in SnapPointSet(Null) }
        Ys == { q.y : q \in SnapPointSet(Null) }
    IN \A c \in SnapCandidates :
         LET r == applySnapping(c.x, c.y, Null)
             snapsX == SnapsTo(c.x, Xs)
             snapsY == SnapsTo(c.y, Ys)
         IN /\ IF snapsX
               THEN r.x \in Xs /\ Abs(c.x - r.x) = LeastDistance(c.x, Xs)
               ELSE r.x = c.x
            /\ IF snapsY
               THEN r.y \in Ys /\ Abs(c.y - r.y) = LeastDistance(c.y, Ys)
               ELSE r.y = c.y
            /\ r.guides =
                 (IF snapsX
                  THEN <<[type |-> "vertical", position |-> r.x]>> ELSE <<>>)
                 \o (IF snapsY
                     THEN <<[type |-> "horizontal", position |-> r.y]>> ELSE <<>>)

\* zoomed in, a pointer-down with a shape tool has snapped on both axes,
\* and some candidate snaps on one axis only
C19_Witness ==
  /\ snapEnabled /\ stageScale # ScaleOne
  /\ isDrawing /\ Len(tempGuides) = 2
  /\ \E c \in SnapCandidates : Len(applySnapping(c.x, c.y, Null).guides) = 1

\* C20: the shape being manipulated is excluded from its own snap
\* candidates: while a shape is dragged, its new position and the guides are
\* those of snapping against the other shapes only.
C20_DraggedShapeExcluded ==
  startPos # Null =>
    LET hit == findShapeAtPosition(startPos.x, startPos.y)
    IN (DragOf(hit) /\ selectedIds = <<hit.id>>) =>
         \A p1 \in CanvasPoints :
           LET pos == PointerAt(p1)
               r == mouseMove(CurUI, Cur, p1[1], p1[2])
               s == applySnapping(hit.x + (pos.x - startPos.x),
                                  hit.y + (pos.y - startPos.y), hit)
               moved == FindById(r.st.shapes, hit.id)
           IN OnGrid(p1) =>
                /\ moved.x = s.x /\ moved.y = s.y
                /\ r.ui.tempGuides = s.guides

(***************************************************************************)
(* Properties of the guides, the eraser and the viewport.                  *)
(***************************************************************************)
\* C21: transient guides exist only during a session: after every handler,
\* if no drag, resize or draw session is active, the guide list is empty.
C21_GuidesOnlyInSession ==
  (~isDragging /\ ~isResizing /\ ~isDrawing) => tempGuides = <<>>

NoDuplicates(s) == \A i, j \in 1..Len(s) : s[i] = s[j] => i = j

\* the opacity of entity e after a step that left the list `after`:
\* untouched if its id was in the touched set, otherwise untouched or
\* reduced by the decrement
TouchedOnce(e, after) ==
  LET e2 == FindById(after, e.id)
  IN /\ e2 # Null
     /\ IF Includes(erasedElements, e.id) THEN e2.opacity = e.opacity
        ELSE e2.opacity \in {e.opacity, ErasedOpacity(e)}

\* C22: eraser touch is idempotent within a session: while the eraser is
\* held down the touched set holds each id at most once, and a pointer-move
\* neither reduces the opacity of an entity already in the touched set nor
\* adds its id again; an entity not yet touched is reduced by the fixed
\* decrement at most once.
C22_EraserTouchOnce ==
  (tool = "eraser" /\ isMouseDown) =>
    /\ NoDuplicates(erasedElements)
    /\ \A p \in CanvasPoints :
         OnGrid(p) =>
           LET r == mouseMove(CurUI, Cur, p[1], p[2])
           IN /\ NoDuplicates(r.ui.erasedElements)
              /\ \A i \in 1..Len(shapes) : TouchedOnce(shapes[i], r.st.shapes)
              /\ \A i \in 1..Len(paths) : TouchedOnce(paths[i], r.st.paths)

\* the eraser is held over a shape that this session has already touched
C22_Witness ==
  /\ tool = "eraser" /\ isMouseDown
  /\ \E p \in CanvasPoints :
       LET hit == findShapeAtPosition(PointerAt(p).x, PointerAt(p).y)
       IN /\ OnGrid(p) /\ hit # Null
          /\ Includes(erasedElements, hit.id)
          /\ hit.opacity = OpacityOne - EraseDecrement

\* C23: the pointer-up that ends an erase session (the pointer is down and
\* the touched set is not empty) deletes every touched id from shapes and
\* paths with a single history commit and leaves the touched set empty, so
\* that no touched entity survives the release.
C23_EraserRelease ==
  (isMouseDown /\ erasedElements # <<>> /\ historyIndex + 2 <= HistoryLimit) =>
    LET r == mouseUp(CurUI, Cur)
    IN /\ r.ui.erasedElements = <<>>
       /\ Range(erasedElements) \cap (Ids(r.st.shapes) \cup Ids(r.st.paths)) = {}
       /\ OneCommit(Cur, r.st)

\* C24: the viewport scale stays within [0.1, 5.0] after any sequence of
\* wheel zooms, zoomIn/zoomOut, zoom keys, reset and fit-to-screen; and the
\* pointer handlers, unless a pan is in progress, leave the offset as it is
\* (the scale is written by the zoom operations only).
C24_ScaleBound ==
  /\ ScaleMin <= stageScale /\ stageScale <= ScaleMax
  /\ ~isPanning =>
       /\ mouseUp(CurUI, Cur).ui.stagePos = stagePos
       /\ \A p \in ClientPoints :
            /\ mouseMove(CurUI, Cur, p[1], p[2]).ui.stagePos = stagePos
            /\ \A shiftKey \in BOOLEAN :
                 mouseDown(CurUI, Cur, p[1], p[2], shiftKey).ui.stagePos = stagePos

\* zoomed out to the lower bound and panned, a shape being drawn
C24_Witness ==
  /\ stageScale = ScaleMin
  /\ stagePos # Pt(0, 0)
  /\ isDrawing /\ currentShape # Null

(***************************************************************************)
(* Properties of error handling and of collaboration.                      *)
(***************************************************************************)
\* ids that no shape and no path of the model carries
AbsentIds == (0..(MaxNow + 1)) \ (Ids(shapes) \cup Ids(paths))

\* C25: mutations addressed at a nonexistent id are no-ops: updateShape,
\* deleteShape and deletePath, and the service's updateShape and updatePath,
\* called with an id that is not in the model leave paths, shapes, the
\* selection, the history log and the cursor unchanged.
C25_AbsentIdNoOp ==
  \A id \in AbsentIds :
    /\ \A T \in { deleteShape(Cur, id), deletePath(Cur, id) }
               \cup { updateShape(Cur, id, u) : u \in UpdateInputs } :
         /\ T.paths = paths /\ T.shapes = shapes
         /\ T.selectedIds = selectedIds
         /\ T.history = history /\ T.historyIndex = historyIndex
    /\ \A u \in UpdateInputs :
         /\ id \notin Ids(doc.shapes) => svc_updateShape(Cur, id, u) = Cur
         /\ id \notin Ids(doc.paths) => svc_updatePath(Cur, id, u) = Cur

\* the intents issued on S are applied to the local model
AppliedLocally(S) ==
  /\ collaborativeAddPath(S, NewPath) = addPath(S, NewPath)
  /\ collaborativeAddShape(S, NewShape) = addShape(S, NewShape)
  /\ collaborativeClearCanvas(S) = clearCanvas(S)
  /\ collaborativeDeleteSelected(S) = deleteSelected(S)
  /\ \A id \in Ids(S.shapes), u \in UpdateInputs :
       collaborativeUpdateShape(S, id, u) = updateShape(S, id, u)

\* C26: if enabling collaboration fails (subscribe rejects), local paths,
\* shapes, selection and history are unchanged, isCollaborating stays false,
\* an error status is recorded, the loading flag is false again, and the
\* intents that follow are applied to the local model.
C26_FailureRecoverable ==
  subscribePending =>
    LET T == subscribeRejected(Cur)
    IN /\ T.paths = paths /\ T.shapes = shapes
       /\ T.selectedIds = selectedIds
       /\ T.history = history /\ T.historyIndex = historyIndex
       /\ ~T.isCollaborating
       /\ T.collabError # NullStr
       /\ ~T.isCollabLoading
       /\ AppliedLocally(T)

\* C27: own intents come back: whenever collaboration is active, after any
\* sequence of switching collaboration on and off, an outbound add-path,
\* add-shape or clear intent is followed by the state-replaced callback, so
\* that when the intent returns the added entity is in the local paths or
\* shapes (and after a clear the local lists are empty).
C27_OwnIntentsComeBack ==
  collabActive(Cur) =>
    /\ NewPath.id \in Ids(collaborativeAddPath(Cur, NewPath).paths)
    /\ NewShape.id \in Ids(collaborativeAddShape(Cur, NewShape).shapes)
    /\ LET T == collaborativeClearCanvas(Cur)
       IN T.paths = <<>> /\ T.shapes = <<>>

\* C28: single source of truth: while collaboration is active the local
\* paths and shapes equal the document state after each engine operation
\* (add, update, delete selected by any entry point, clear, undo, redo,
\* load).
C28_SingleSourceOfTruth ==
  (collabActive(Cur) /\ svcReady(Cur)) =>
    /\ paths = doc.paths
    /\ shapes = doc.shapes

(***************************************************************************)
(* Properties of the documented shortcuts.                                 *)
(***************************************************************************)
\* C29: the documented shortcut Ctrl+Shift+Delete clears the canvas: after
\* the key press is handled and the confirmation accepted, paths and shapes
\* are empty and the selection is empty.
C29_CtrlShiftDeleteClears ==
  LET T == handleKeyDown(Cur, "Delete", TRUE, TRUE, TRUE)
  IN /\ T.paths = <<>>
     /\ T.shapes = <<>>
     /\ T.selectedIds = <<>>

\* C30: the documented shortcut Ctrl+S toggles snapping: every press flips
\* snapEnabled relative to its current value, so two consecutive presses
\* with no other event in between restore the original value.
C30_CtrlSToggles ==
  LET once == ctrlS(SnapState)
      twice == ctrlS(once)
  IN /\ once.snapEnabled = ~snapEnabled
     /\ twice.snapEnabled = snapEnabled


OnSegment(px, py, x1, y1, x2, y2) ==
  /\ (px - x1) * (y2 - y1) = (py - y1) * (x2 - x1)
  /\ Min(x1, x2) <= px /\ px <= Max(x1, x2)
  /\ Min(y1, y2) <= py /\ py <= Max(y1, y2)

\* C32: for all segments (a, b), the degenerate a = b included, and all
\* points p, pointToLineDistance(p, a, b) is >= 0 and equals 0 if and only
\* if p lies on the segment.
C32_DistanceZeroIffOnSegment ==
  \A i \in 1..Len(paths), p \in GeomPoints :
    \A j \in 0..(Len(paths[i].points) - 4) :
      j % 2 = 0 =>
        LET pts == paths[i].points
            distance == pointToLineDistance(p[1], p[2], pts[j + 1], pts[j + 2],
                                            pts[j + 3], pts[j + 4])
        IN /\ distance >= 0
           /\ distance = 0 <=>
                OnSegment(p[1], p[2], pts[j + 1], pts[j + 2],
                          pts[j + 3], pts[j + 4])


(***************************************************************************)
(* Properties of resizing, erasing and drawing gestures.                   *)
(***************************************************************************)
\* the four edges of a shape's bounding box
Edges(s) ==
  [left |-> s.x, right |-> s.x + s.width, top |-> s.y, bottom |-> s.y + s.height]

\* the edges after the edges named by the handle have moved by the delta
MovedEdges(e, handle, deltaX, deltaY) ==
  [left |-> IF handle \in {"nw", "sw", "w"} THEN e.left + deltaX ELSE e.left,
   right |-> IF handle \in {"ne", "se", "e"} THEN e.right + deltaX ELSE e.right,
   top |-> IF handle \in {"nw", "ne", "n"} THEN e.top + deltaY ELSE e.top,
   bottom |-> IF handle \in {"sw", "se", "s"} THEN e.bottom + deltaY ELSE e.bottom]

\* a resize is in progress on the shape and the pointer-move reaches the
\* resizing branch (the eraser's and the pan's branches come before it)
ResizeOf(shape) ==
  /\ isResizing /\ ~(tool = "eraser" /\ isMouseDown) /\ ~isPanning
  /\ startPos # Null
  /\ resizeHandle # NullStr
  /\ shape # Null

\* C33: resize handle semantics: each pointer-move while resizing the single
\* selected shape moves only the edges named by the handle by the pointer
\* delta and keeps the opposite side fixed ('se' leaves x and y unchanged,
\* 'nw' leaves x+width and y+height unchanged, and so on for the eight
\* handles); nothing else of the shape and no other shape changes.
C33_ResizeHandleSemantics ==
  Len(selectedIds) = 1 =>
    LET shape == FindById(shapes, selectedIds[1])
    IN ResizeOf(shape) =>
         \A p1 \in CanvasPoints \cup ClientPoints :
           LET pos == PointerAt(p1)
               deltaX == pos.x - startPos.x
               deltaY == pos.y - startPos.y
               T == mouseMove(CurUI, Cur, p1[1], p1[2]).st
           IN OnGrid(p1) =>
                /\ \A h \in Range(HandleNames) :
                     LET r == ResizedShape(shape, h, deltaX, deltaY)
                     IN /\ Edges(r) = MovedEdges(Edges(shape), h, deltaX, deltaY)
                        /\ [r EXCEPT !.x = shape.x, !.y = shape.y,
                                     !.width = shape.width,
                                     !.height = shape.height] = shape
                /\ Len(T.shapes) = Len(shapes)
                /\ \A i \in 1..Len(shapes) :
                     IF shapes[i].id = shape.id
                     THEN /\ Edges(T.shapes[i])
                               = MovedEdges(Edges(shape), resizeHandle,
                                            deltaX, deltaY)
                          /\ [T.shapes[i] EXCEPT !.x = shape.x, !.y = shape.y,
                                                 !.width = shape.width,
                                                 !.height = shape.height] = shape
                     ELSE T.shapes[i] = shapes[i]

\* a resize by the south-east handle has moved the rectangle's right and
\* bottom edges, its origin staying where it was loaded, and is still in
\* progress
C33_Witness ==
  /\ Len(selectedIds) = 1
  /\ ResizeOf(FindById(shapes, selectedIds[1]))
  /\ resizeHandle = "se"
  /\ LET e == Edges(FindById(shapes, selectedIds[1]))
     IN e.left = 10 /\ e.top = 10 /\ e.right = 50 /\ e.bottom = 50

\* C34: erase sweep coverage: every shape whose bounding box contains a
\* pointer-move position of an erase session, and every path within hit
\* distance of it, is in the touched set after the move, also when another
\* shape lies on top of it at that position; and the release removes every
\* entity of the touched set.
C34_EraseSweepCoverage ==
  (tool = "eraser" /\ isMouseDown) =>
    /\ \A p \in GeomPoints :
         LET pos == PointerAt(p)
             touched == mouseMove(CurUI, Cur, p[1], p[2]).ui.erasedElements
         IN /\ \A i \in 1..Len(shapes) :
                 ShapeContains(shapes[i], pos.x, pos.y)
                   => Includes(touched, shapes[i].id)
            /\ \A i \in 1..Len(paths) :
                 PathHit(paths[i], pos.x, pos.y)
                   => Includes(touched, paths[i].id)
    /\ LET T == mouseUp(CurUI, Cur).st
       IN \A id \in Range(erasedElements) :
            id \notin Ids(T.shapes) /\ id \notin Ids(T.paths)


(***************************************************************************)
(* Properties of the mount, of the local history and of gestures.          *)
(***************************************************************************)
\* C35: initializing the collaboration service on mount only creates the
\* service instance and does not connect: while toggleCollaboration has not
\* been invoked, isCollaborating is false and the completion of what the
\* mount started neither sets it nor replaces the local paths and shapes by
\* the collaborator's state.
C35_MountDoesNotConnect ==
  /\ ~isCollaborating
  /\ (mountPending /\ connectionOpen) =>
       \A data \in Fetched :
         LET T == notifyStateChange([Cur EXCEPT !.doc = data,
                                                !.isConnected = TRUE])
         IN ~T.isCollaborating /\ T.paths = paths /\ T.shapes = shapes


\* collaboration has never been activated: no subscription has completed,
\* so the service holds no document and the callback has never run
LocalMode == doc = Null /\ ~isCollaborating /\ ~isConnected

\* C36: in local mode, whenever the history log is non-empty the current
\* paths and shapes equal the snapshot stored at history[historyIndex],
\* after any sequence of mutations, undo, redo and loads.
C36_CanvasIsSnapshotAtCursor ==
  (LocalMode /\ history # <<>>) =>
    /\ paths = history[historyIndex + 1].paths
    /\ shapes = history[historyIndex + 1].shapes


\* in local mode an undo has moved the cursor below the tip of a log of two
\* entries, and the canvas is not empty
C36_Witness ==
  /\ LocalMode
  /\ Len(history) = 2 /\ historyIndex = 0
  /\ Len(paths) + Len(shapes) > 0


\* C37: in local mode every committed mutation can be undone: immediately
\* after any mutation made while the log is below capacity, a single undo
\* restores paths and shapes to their values from before that mutation,
\* the first mutation on an initially empty canvas included.
C37_EveryMutationUndoable ==
  (LocalMode /\ historyIndex + 2 <= HistoryLimit) =>
    \A T \in CommitResults(Cur) :
      LET U == undo(T)
      IN U.paths = paths /\ U.shapes = shapes


\* a drag or a resize of the select tool is in progress
TransformSession ==
  /\ tool = "select" /\ isMouseDown /\ (isDragging \/ isResizing)
  /\ ~isPanning /\ ~isDrawing

\* C38: a completed drag or resize gesture (pointer-down, one or more
\* pointer-moves, pointer-up) adds exactly one history entry: once a
\* pointer-move of the gesture has added an entry, neither a further
\* pointer-move of the same gesture nor its pointer-up adds another.  Stated
\* for gestures made with snapping switched off, where the pointer position
\* is used as it is.
C38_OneEntryPerGesture ==
  [][ ( /\ LocalMode /\ TransformSession /\ ~snapEnabled
        /\ \E p \in CanvasPoints :
             LET r == mouseMove(CurUI, Cur, p[1], p[2])
             IN CurUI' = r.ui /\ Cur' = r.st
        /\ history' # history )
      => ( /\ \A q \in CanvasPoints :
                mouseMove(CurUI, Cur, q[1], q[2]).st.history = history
           /\ mouseUp(CurUI, Cur).st.history = history )' ]_vars

\* the whole points of the box spanned by two opposite corners
BoxBetween(x1, y1, x2, y2) ==
  {p \in ((IF x1 <= x2 THEN x1 ELSE x2)..(IF x1 <= x2 THEN x2 ELSE x1))
         \X ((IF y1 <= y2 THEN y1 ELSE y2)..(IF y1 <= y2 THEN y2 ELSE y1)) : TRUE}

\* a pointer-up that commits the rectangle or circle being drawn
CommitsDrawnShape ==
  /\ LocalMode /\ isDrawing /\ tool \in {"rectangle", "circle"}
  /\ currentShape # Null
  /\ LET r == mouseUp(CurUI, Cur)
     IN CurUI' = r.ui /\ Cur' = r.st
  /\ shapes' = Append(shapes, currentShape)

\* C39: every rectangle or circle committed by a shape tool, whatever the
\* direction of the drawing drag, can be hit afterwards: it is the topmost
\* shape, and the shape hit-test at any point between its two corners
\* returns it.
C39_DrawnShapeCanBeHit ==
  [][ CommitsDrawnShape
      => \A p \in BoxBetween(currentShape.x, currentShape.y,
                             currentShape.x + currentShape.width,
                             currentShape.y + currentShape.height) :
           (findShapeAtPosition(p[1], p[2]))' = currentShape ]_vars

\* a drag session of one selected line or arrow
LineDragSession ==
  /\ LocalMode /\ tool = "select" /\ isMouseDown /\ isDragging
  /\ ~isPanning /\ ~isResizing /\ startPos # Null
  /\ Len(selectedIds) = 1
  /\ FindById(shapes, selectedIds[1]) # Null
  /\ FindById(shapes, selectedIds[1]).type \in {"line", "arrow"}

\* C40: dragging a selected line or arrow by a delta d moves both endpoints
\* stored in its points field by d: after a pointer-move of the drag the
\* endpoints have moved by as much as the shape's x and y.
C40_LineDragMovesEndpoints ==
  LineDragSession =>
    \A p \in CanvasPoints :
      LET before == FindById(shapes, selectedIds[1])
          after == FindById(mouseMove(CurUI, Cur, p[1], p[2]).st.shapes,
                            selectedIds[1])
          dx == after.x - before.x
          dy == after.y - before.y
      IN after.points = << before.points[1] + dx, before.points[2] + dy,
                           before.points[3] + dx, before.points[4] + dy >>

====
